---------------------------- MODULE Spec2Model ----------------------------
(***************************************************************************)
(* A model of the CalendarGPT backend (src/backend/app.py): the in-memory  *)
(* conversation store, and the instruction dispatcher with its handlers    *)
(* (create / update / delete / find_and_delete / query) acting on a        *)
(* scheduling provider.                                                    *)
(*                                                                         *)
(* Specifications:                                                         *)
(*   Spec       one call of process_ai_instruction after another           *)
(*   SpecStore  sequential calls of add_to_conversation_history and        *)
(*              get_conversation_history                                   *)
(*   SpecConc   calls of add_to_conversation_history running in request    *)
(*              threads that interleave between bytecodes                  *)
(*   SpecText   calls of process_ai_instruction followed from the reply    *)
(*              text: the search for the instruction block, the repair     *)
(*              pass, the JSON parse and the brace-counting recovery       *)
(*   SpecRequest  requests to the text endpoint and the file endpoint,     *)
(*              one after another: history appends, completion, dispatch   *)
(***************************************************************************)
EXTENDS Integers, Sequences, FiniteSets, TLC

VARIABLES
    conversation_history,  \* the dict of app.py:62: user id -> list object (0: no key)
    heap,                  \* the list objects, by identity: heap[r] is list r's content
    loc,                   \* per request thread: the frame of its running call
    appended,              \* ghost: per user, the entries whose append was called, in order
    got,                   \* the last get_conversation_history call and what it returned
    overlaps,              \* ghost: calls entered while another call was running
    pc,                    \* where process_ai_instruction stands
    parse,                 \* what extraction made of the reply text
    instruction,           \* the parsed instruction object
    events,                \* what the provider's events().list returns
    tasks,                 \* what the provider's tasks().list returns
    fail,                  \* the collaborator call that fails in this dispatch
    calls,                 \* the collaborator calls made in this dispatch, in order
    result,                \* what process_ai_instruction returned
    ai_response,           \* the reply text, when the call is followed from the text
    written,               \* ghost: the object of the reply as written, and in strict syntax
    request,               \* the request served last: endpoint, file, user id, status
    trace                  \* ghost: the steps that request took, in order

storeVars == <<conversation_history, heap, loc, appended, got, overlaps>>
dispatchVars ==
    <<pc, parse, instruction, events, tasks, fail, calls, result, ai_response, written,
      request, trace>>
vars == <<conversation_history, heap, loc, appended, got, overlaps,
          pc, parse, instruction, events, tasks, fail, calls, result, ai_response, written,
          request, trace>>

(***************************************************************************)
(* Bounds of the model.                                                    *)
(***************************************************************************)
MaxCalls == 22      \* add_to_conversation_history calls in one behaviour
NThreads == 2       \* request threads
MaxOverlaps == 1    \* calls entered while another call is running, in one behaviour
MaxK == 22          \* largest max_messages asked of get_conversation_history

Users == {"u1", "u2"}
Threads == 1..NThreads

Max(a, b) == IF a >= b THEN a ELSE b
Min(a, b) == IF a <= b THEN a ELSE b

(***************************************************************************)
(* The conversation store, app.py:61-83.                                   *)
(***************************************************************************)
\* app.py:82-83: the history keeps at most this many messages
HistoryLimit == 20

\* Python's lst[-k:] for k >= 0: -0 is 0, so lst[-0:] is the whole list
SliceLast(lst, k) ==
    IF k = 0 THEN lst
    ELSE SubSeq(lst, Max(1, Len(lst) - k + 1), Len(lst))

\* app.py:75-79: the entry appended for a user's n-th message.  The request
\* flow alternates user message and assistant reply; the timestamp is the
\* wall clock at the call and is not modelled.
Entry(n) == [message |-> n, is_user |-> (n % 2 = 1)]

IdleFrame == [pc |-> "idle", user_id |-> "u1", entry |-> Entry(0), ref |-> 0, tmp |-> 0]

\* the frame of a fresh call of add_to_conversation_history
CallFrame(user_id, entry) ==
    [pc |-> "L72", user_id |-> user_id, entry |-> entry, ref |-> 0, tmp |-> 0]

\* app.py:83: conversation_history[user_id][-20:]
TrimHead(lst) == SubSeq(lst, 1, Min(Len(lst), HistoryLimit))
TrimKeep(lst) == SliceLast(lst, HistoryLimit)

\* app.py:82: len(conversation_history[user_id]) > 20
TooLong(lst) == Len(lst) > HistoryLimit

(***************************************************************************)
(* One step of add_to_conversation_history in a thread: s is the memory it *)
(* sees (the dict ch, the list objects hp) and its frame l.  The thread    *)
(* can be switched out between any two steps; each step reads or writes    *)
(* shared memory once.                                                     *)
(***************************************************************************)
StepAdd(s) ==
    LET l == s.l
        u == l.user_id
    IN  CASE l.pc = "L72" ->        \* if user_id not in conversation_history
               [s EXCEPT !.l.pc = IF s.ch[u] = 0 THEN "L73" ELSE "L75"]
          [] l.pc = "L73" ->        \* conversation_history[user_id] = []
               [s EXCEPT !.hp = Append(s.hp, <<>>),
                         !.ch[u] = Len(s.hp) + 1,
                         !.l.pc = "L75"]
          [] l.pc = "L75" ->        \* load conversation_history[user_id]
               [s EXCEPT !.l.ref = s.ch[u], !.l.pc = "L75_append"]
          [] l.pc = "L75_append" -> \* .append({...}) on the loaded list
               [s EXCEPT !.hp[l.ref] = Append(s.hp[l.ref], l.entry),
                         !.l.pc = "L82"]
          [] l.pc = "L82" ->        \* load conversation_history[user_id]
               [s EXCEPT !.l.ref = s.ch[u], !.l.pc = "L82_len"]
          [] l.pc = "L82_len" ->    \* if len(...) > 20
               [s EXCEPT !.l.pc = IF TooLong(s.hp[l.ref]) THEN "L83" ELSE "return"]
          [] l.pc = "L83" ->        \* load conversation_history[user_id]
               [s EXCEPT !.l.ref = s.ch[u], !.l.pc = "L83_slice"]
          [] l.pc = "L83_slice" ->  \* [-20:] builds a new list
               [s EXCEPT !.hp = Append(s.hp, TrimKeep(s.hp[l.ref])),
                         !.l.tmp = Len(s.hp) + 1,
                         !.l.pc = "L83_store"]
          [] l.pc = "L83_store" ->  \* conversation_history[user_id] = <the new list>
               [s EXCEPT !.ch[u] = l.tmp, !.l.pc = "return"]
          [] OTHER -> s

RECURSIVE RunAdd(_)
RunAdd(s) == IF s.l.pc = "return" THEN s ELSE RunAdd(StepAdd(s))

\* add_to_conversation_history(user_id, message, is_user), run from call to return
add_to_conversation_history(ch, hp, user_id, entry) ==
    RunAdd([ch |-> ch, hp |-> hp, l |-> CallFrame(user_id, entry)])

\* app.py:64-68
get_conversation_history(ch, hp, user_id, max_messages) ==
    IF ch[user_id] = 0 THEN <<>>
    ELSE SliceLast(hp[ch[user_id]], max_messages)

\* the stored history of a user, <<>> when the dict has no key for it
History(u) == IF conversation_history[u] = 0 THEN <<>> ELSE heap[conversation_history[u]]

NoGot == [called |-> FALSE, user_id |-> "u1", max_messages |-> 0, value |-> <<>>]

StoreInit ==
    /\ conversation_history = [u \in Users |-> 0]
    /\ heap = <<>>
    /\ loc = [t \in Threads |-> IdleFrame]
    /\ appended = [u \in Users |-> <<>>]
    /\ got = NoGot
    /\ overlaps = 0

NCalls == Len(appended["u1"]) + Len(appended["u2"])

Quiescent == \A t \in Threads : loc[t].pc = "idle"

\* a sequential call of add_to_conversation_history, from call to return
AddToHistory(u) ==
    /\ NCalls < MaxCalls
    /\ LET e == Entry(Len(appended[u]) + 1)
           s == add_to_conversation_history(conversation_history, heap, u, e)
       IN  /\ conversation_history' = s.ch
           /\ heap' = s.hp
           /\ appended' = [appended EXCEPT ![u] = Append(@, e)]
    /\ got' = NoGot
    /\ UNCHANGED <<loc, overlaps>>
    /\ UNCHANGED dispatchVars

\* a call of get_conversation_history(user_id, max_messages)
GetHistory(u, k) ==
    /\ got' = [called |-> TRUE, user_id |-> u, max_messages |-> k,
               value |-> get_conversation_history(conversation_history, heap, u, k)]
    /\ UNCHANGED <<conversation_history, heap, loc, appended, overlaps>>
    /\ UNCHANGED dispatchVars

\* a request thread enters add_to_conversation_history
ThreadCall(t, u) ==
    /\ loc[t].pc = "idle"
    /\ NCalls < MaxCalls
    /\ Quiescent \/ overlaps < MaxOverlaps
    /\ overlaps' = IF Quiescent THEN overlaps ELSE overlaps + 1
    /\ LET e == Entry(Len(appended[u]) + 1)
       IN  /\ loc' = [loc EXCEPT ![t] = CallFrame(u, e)]
           /\ appended' = [appended EXCEPT ![u] = Append(@, e)]
    /\ UNCHANGED <<conversation_history, heap, got>>
    /\ UNCHANGED dispatchVars

\* a request thread runs one step of its call
ThreadStep(t) ==
    /\ loc[t].pc \notin {"idle", "return"}
    /\ LET s == StepAdd([ch |-> conversation_history, hp |-> heap, l |-> loc[t]])
       IN  /\ conversation_history' = s.ch
           /\ heap' = s.hp
           /\ loc' = [loc EXCEPT ![t] = s.l]
    /\ UNCHANGED <<appended, got, overlaps>>
    /\ UNCHANGED dispatchVars

\* a request thread returns from its call
ThreadReturn(t) ==
    /\ loc[t].pc = "return"
    /\ loc' = [loc EXCEPT ![t] = IdleFrame]
    /\ UNCHANGED <<conversation_history, heap, appended, got, overlaps>>
    /\ UNCHANGED dispatchVars


(***************************************************************************)
(* Values.  A Python string is a sequence of one-character strings; the    *)
(* JSON null (Python None) and a key that is not in the object are the     *)
(* one-element sequences None and Absent, which are no strings.            *)
(***************************************************************************)
None == <<"<None>">>
Absent == <<"<Absent>">>

\* dict.get(key, default): the default only for a key that is not there
Get(v, default) == IF v = Absent THEN default ELSE v

\* dict.get(key): None for a key that is not there
GetOrNone(v) == IF v = Absent THEN None ELSE v

Lower(c) == CASE c = "D" -> "d" [] c = "A" -> "a" [] c = "Q" -> "q" [] OTHER -> c

\* str.lower()
LowerStr(str) == [i \in 1..Len(str) |-> Lower(str[i])]

Upper(c) ==
    CASE c = "a" -> "A" [] c = "d" -> "D" [] c = "e" -> "E" [] c = "i" -> "I"
      [] c = "k" -> "K" [] c = "l" -> "L" [] c = "w" -> "W" [] c = "y" -> "Y"
      [] OTHER -> c

\* str.upper()
UpperStr(str) == [i \in 1..Len(str) |-> Upper(str[i])]

DigitChars == <<"0", "1", "2", "3", "4", "5", "6", "7", "8", "9">>

IsDigit(c) == \E d \in 1..10 : DigitChars[d] = c

DigitOf(c) == (CHOOSE d \in 1..10 : DigitChars[d] = c) - 1

\* str(n) of a non-negative int
RECURSIVE Str(_)
Str(n) ==
    IF n < 10 THEN <<DigitChars[n + 1]>>
    ELSE Str(n \div 10) \o <<DigitChars[(n % 10) + 1]>>

\* int(s) of a text without sign, blank or underscore: ValueError unless it
\* is one or more decimal digits
RECURSIVE DigitsValue(_)
DigitsValue(str) ==
    IF str = <<>> THEN 0
    ELSE DigitsValue(SubSeq(str, 1, Len(str) - 1)) * 10 + DigitOf(str[Len(str)])

int(str) ==
    IF str # <<>> /\ \A i \in 1..Len(str) : IsDigit(str[i])
    THEN [raised |-> FALSE, value |-> DigitsValue(str)]
    ELSE [raised |-> TRUE, value |-> 0]

\* str.replace(old, new) for a non-empty old: every occurrence, left to right
RECURSIVE Replace(_, _, _)
Replace(str, old, new) ==
    LET hits == {i \in 1..(Len(str) - Len(old) + 1) :
                     SubSeq(str, i, i + Len(old) - 1) = old}
        first == CHOOSE i \in hits : \A j \in hits : i <= j
    IN  IF hits = {} THEN str
        ELSE SubSeq(str, 1, first - 1) \o new
             \o Replace(SubSeq(str, first + Len(old), Len(str)), old, new)

\* str.split(c)[0]
RECURSIVE BeforeFirst(_, _)
BeforeFirst(str, c) ==
    IF str = <<>> \/ str[1] = c THEN <<>>
    ELSE <<str[1]>> \o BeforeFirst(Tail(str), c)

\* sep.join(parts)
RECURSIVE Join(_, _)
Join(parts, sep) ==
    IF parts = <<>> THEN <<>>
    ELSE IF Len(parts) = 1 THEN parts[1]
    ELSE parts[1] \o <<sep>> \o Join(Tail(parts), sep)

\* Python's `a in b` on strings
IsSubstring(a, b) ==
    \E i \in 0..(Len(b) - Len(a)) : SubSeq(b, i + 1, i + Len(a)) = a

\* an ISO date 'YYYY-MM-DD' is the number its digits YYYYMMDD spell; 0 stands
\* for null (and for a missing key and '', which every test on a date treats
\* the same way)
Date(y, m, d) == y * 10000 + m * 100 + d

\* the calendar of Python's datetime: proleptic Gregorian ordinals
IsLeap(y) == y % 4 = 0 /\ (y % 100 # 0 \/ y % 400 = 0)

DaysInMonth(y, m) ==
    IF m = 2 THEN (IF IsLeap(y) THEN 29 ELSE 28)
    ELSE IF m \in {4, 6, 9, 11} THEN 30 ELSE 31

\* the days of the year before the first of month m
DaysBeforeMonth(y, m) ==
    <<0, 31, 59, 90, 120, 151, 181, 212, 243, 273, 304, 334>>[m]
        + (IF m > 2 /\ IsLeap(y) THEN 1 ELSE 0)

DaysBeforeYear(y) ==
    LET p == y - 1 IN p * 365 + p \div 4 - p \div 100 + p \div 400

\* date.toordinal()
ymd2ord(y, m, d) == DaysBeforeYear(y) + DaysBeforeMonth(y, m) + d

\* date.fromordinal(n), by the 400-, 100-, 4- and 1-year cycles: the month
\* is guessed from the day of the year n and corrected when it is too late
MonthDay(year, n, guess, before) ==
    IF before > n
    THEN [y |-> year, m |-> guess - 1, d |-> n - (before - DaysInMonth(year, guess - 1)) + 1]
    ELSE [y |-> year, m |-> guess, d |-> n - before + 1]

YearDay(year, n100, n1, n) ==
    IF n1 = 4 \/ n100 = 4 THEN [y |-> year - 1, m |-> 12, d |-> 31]
    ELSE MonthDay(year, n, (n + 50) \div 32, DaysBeforeMonth(year, (n + 50) \div 32))

Cycle1(n400, n100, n4, r) ==
    YearDay(n400 * 400 + 1 + n100 * 100 + n4 * 4 + r \div 365, n100, r \div 365, r % 365)

Cycle4(n400, n100, r) == Cycle1(n400, n100, r \div 1461, r % 1461)

Cycle100(n400, r) == Cycle4(n400, r \div 36524, r % 36524)

ord2ymd(ordinal) == Cycle100((ordinal - 1) \div 146097, (ordinal - 1) % 146097)

\* datetime.strptime(s, '%Y-%m-%d'): the ordinal of the date, or ValueError
strptime(date) ==
    LET y == date \div 10000
        m == (date \div 100) % 100
        d == date % 100
    IN  IF y \in 1..9999 /\ m \in 1..12 /\ d \in 1..DaysInMonth(y, m)
        THEN [raised |-> FALSE, ordinal |-> ymd2ord(y, m, d)]
        ELSE [raised |-> TRUE, ordinal |-> 0]

\* d.strftime('%Y-%m-%d')
strftime(ordinal) ==
    LET c == ord2ymd(ordinal) IN Date(c.y, c.m, c.d)

\* a date-time: the local date and time (seconds of the day) it is written
\* with, and its UTC offset in hours when it carries one
NoDT == [set |-> FALSE, day |-> 0, sec |-> 0, aware |-> FALSE, off |-> 0]
DT(day, sec, aware, off) == [set |-> TRUE, day |-> day, sec |-> sec, aware |-> aware, off |-> off]

\* the instant datetime.fromisoformat gives, in seconds since 2025-01-01
Instant(dt) ==
    (strptime(dt.day).ordinal - ymd2ord(2025, 1, 1)) * 86400 + dt.sec - dt.off * 3600

\* instruction.get('time'): "HH:MM" as the minute of the day, NoTime for None
NoTime == -1

Abs(x) == IF x < 0 THEN -x ELSE x

\* a candidate's start: {} / {'date': d} / {'dateTime': t}
NoStart == [kind |-> "none", day |-> 0, dt |-> NoDT]
DateStart(d) == [kind |-> "date", day |-> d, dt |-> NoDT]
DateTimeStart(dt) == [kind |-> "dateTime", day |-> dt.day, dt |-> dt]

(***************************************************************************)
(* Envelopes and collaborator calls.                                       *)
(***************************************************************************)
Call(op, arg) == [op |-> op, arg |-> arg]

\* a returned dict: its keys, and the values of the keys the model follows
Envelope(keys, success, error, message, items, clarification) ==
    [ret |-> "dict", keys |-> keys, success |-> success, error |-> error,
     message |-> message, items |-> items, clarification |-> clarification]

Text(text, arg) == [text |-> text, arg |-> arg]
NoText == Text("", <<>>)

\* {"error": ...}
Error(text, arg) == Envelope({"error"}, FALSE, Text(text, arg), NoText, <<>>, FALSE)

\* {"success": True, "message": ..., <more keys>}
Success(text, arg, more, items) ==
    Envelope({"success", "message"} \cup more, TRUE, NoText, Text(text, arg), items, FALSE)

\* a Python function that ends without a return statement returns None
ReturnsNone == [ret |-> "None", keys |-> {}, success |-> FALSE, error |-> NoText,
                message |-> NoText, items |-> <<>>, clarification |-> FALSE]

Out(cs, r) == [calls |-> cs, result |-> r]

\* str(e) of a provider exception: opaque
ProviderError == <<"<provider error>">>

(***************************************************************************)
(* The handlers, app.py:1012-1607.  Each takes the instruction, what the   *)
(* provider would list, and the collaborator call that fails (f), and      *)
(* gives the calls it makes and the dict it returns.                       *)
(***************************************************************************)
Credentials == Call("credentials", <<>>)

\* get_calendar_service / get_tasks_service returned (None, error)
CredentialsError == Error("<credentials error>", <<>>)

\* app.py:1528: the tolerance of the datetime_start hint, in seconds
MatchToleranceSeconds == 3600

\* app.py:1500, 1394: containment either way
DescriptionInTitle(search_description, title) ==
    IsSubstring(search_description, title)
title_matches(search_description, title) ==
    IsSubstring(search_description, title) \/ IsSubstring(title, search_description)

\* app.py:1508-1535: date_matches of a title-matching event, "raise" when
\* the subtraction of an offset-naive and an offset-aware datetime throws
date_matches(instruction_, event) ==
    LET start == event.start
        hint == instruction_.datetime_start
    IN  IF instruction_.date # 0 THEN
            IF start.kind \in {"date", "dateTime"}
            THEN (IF start.day = instruction_.date THEN "yes" ELSE "no")
            ELSE "yes"
        ELSE IF hint.set THEN
            IF start.kind = "dateTime" THEN
                IF start.dt.aware # hint.aware THEN "raise"
                ELSE IF Abs(Instant(start.dt) - Instant(hint)) <= MatchToleranceSeconds
                     THEN "yes" ELSE "no"
            ELSE "yes"
        ELSE IF instruction_.time # NoTime THEN
            IF start.kind = "dateTime"
            THEN (IF start.dt.sec \div 60 = instruction_.time THEN "yes" ELSE "no")
            ELSE "yes"
        ELSE "yes"

\* app.py:1498-1538: one pass of the loop
EventVerdict(search_description, instruction_, event) ==
    IF title_matches(search_description, LowerStr(Get(event.summary, <<>>)))
    THEN date_matches(instruction_, event)
    ELSE "no"

\* app.py:1496-1538: matching_events, and whether the loop threw
matching_events(search_description, instruction_, evs) ==
    LET Keep(e) == EventVerdict(search_description, instruction_, e) = "yes"
    IN  [raised |-> \E i \in 1..Len(evs) :
                        EventVerdict(search_description, instruction_, evs[i]) = "raise",
         list |-> SelectSeq(evs, Keep)]

\* app.py:1390-1395: matching_tasks
matching_tasks(search_description, tks) ==
    LET Keep(t) == title_matches(search_description, LowerStr(Get(t.title, <<>>)))
    IN  SelectSeq(tks, Keep)

\* app.py:1564, 1417: len(matching) == 1
AtLeastOne(matching) == Len(matching) >= 1
ExactlyOne(matching) == Len(matching) = 1

\* app.py:1566, 1419: the item to delete
FirstBrowsed(matching, browsed) == browsed[1]
ToDelete(matching, browsed) == matching[1]

\* app.py:1599-1604, 1447-1452: the dict returned for several matches
SeveralAsError(text, search_description, key, matching, browsed) ==
    Error(text, search_description)
SeveralMatches(text, search_description, key, matching, browsed) ==
    Success(text, search_description, {key, "formatted_response"}, matching)

\* app.py:1557-1562, 1410-1415: the dict returned for no match
NoMatchEmpty(text, search_description, key, browsed) ==
    Success(text, search_description, {key, "formatted_response"}, <<>>)
NoMatchBare(text, search_description, key, browsed) ==
    Envelope({"message", key, "formatted_response"}, FALSE, NoText,
             Text(text, search_description), browsed, FALSE)
NoMatch(text, search_description, key, browsed) ==
    Success(text, search_description, {key, "formatted_response"}, browsed)

\* app.py:1576-1580, 1428-1432: the dict returned after the delete
Deleted(text, title) ==
    Success(text, title, {"formatted_response"}, <<>>)

\* app.py:1457-1607
find_and_delete_calendar_event_from_instruction(instruction_, evs, f) ==
    LET failed == Error("Failed to find and delete calendar event: ", ProviderError)
        list == Call("events.list", <<>>)
    IN  IF f = "credentials" THEN Out(<<Credentials>>, CredentialsError)
        ELSE IF f = "list" THEN Out(<<Credentials, list>>, failed)
        ELSE IF evs = <<>> THEN
            Out(<<Credentials, list>>,
                Success("No events found to delete.", <<>>, {"formatted_response"}, <<>>))
        ELSE IF instruction_.title = None THEN    \* None.lower() throws
            Out(<<Credentials, list>>, failed)
        ELSE
            LET search_description == LowerStr(Get(instruction_.title, <<>>))
                m == matching_events(search_description, instruction_, evs)
            IN  IF m.raised THEN Out(<<Credentials, list>>, failed)
                ELSE IF m.list = <<>> THEN
                    Out(<<Credentials, list>>,
                        NoMatch("No events found matching", search_description, "events", evs))
                ELSE IF ExactlyOne(m.list) THEN
                    LET event_to_delete == ToDelete(m.list, evs)
                        event_title == Get(event_to_delete.summary, <<"Untitled Event">>)
                        cs == <<Credentials, list, Call("events.delete", <<event_to_delete.id>>)>>
                    IN  IF f = "delete" THEN Out(cs, failed)
                        ELSE Out(cs, Deleted("Event deleted successfully.", event_title))
                ELSE
                    Out(<<Credentials, list>>,
                        SeveralMatches("Found events matching", search_description,
                                       "events", m.list, evs))

\* app.py:1361-1455
find_and_delete_task_from_instruction(instruction_, tks, f) ==
    LET failed == Error("Failed to find and delete task: ", ProviderError)
        tasklists == Call("tasklists.list", <<>>)
        list == Call("tasks.list", <<>>)
    IN  IF f = "credentials" THEN Out(<<Credentials>>, CredentialsError)
        ELSE IF f = "tasklists" THEN Out(<<Credentials, tasklists>>, failed)
        ELSE IF f = "list" THEN Out(<<Credentials, tasklists, list>>, failed)
        ELSE IF tks = <<>> THEN
            Out(<<Credentials, tasklists, list>>,
                Success("No tasks found to delete.", <<>>, {"formatted_response"}, <<>>))
        ELSE IF instruction_.title = None THEN    \* None.lower() throws
            Out(<<Credentials, tasklists, list>>, failed)
        ELSE
            LET search_description == LowerStr(Get(instruction_.title, <<>>))
                m == matching_tasks(search_description, tks)
            IN  IF m = <<>> THEN
                    Out(<<Credentials, tasklists, list>>,
                        NoMatch("No tasks found matching", search_description, "tasks", tks))
                ELSE IF ExactlyOne(m) THEN
                    LET task_to_delete == ToDelete(m, tks)
                        task_title == Get(task_to_delete.title, <<"Untitled Task">>)
                        cs == <<Credentials, tasklists, list,
                                Call("tasks.delete", <<task_to_delete.id>>)>>
                    IN  IF f = "delete" THEN Out(cs, failed)
                        ELSE Out(cs, Deleted("Task deleted successfully.", task_title))
                ELSE
                    Out(<<Credentials, tasklists, list>>,
                        SeveralMatches("Found tasks matching", search_description,
                                       "tasks", m, tks))

\* Python truthiness of a string-valued field: None, a missing key and '' are false
Truthy(v) == v # None /\ v # Absent /\ v # <<>>

\* instruction['recurrence']: null, the empty object {}, or an object with
\* keys; freq and until are None or a text, interval is 0 for null, byweekday
\* is <<>> for null and for []
NoRecurrence ==
    [kind |-> "null", freq |-> None, interval |-> 0, until |-> None, byweekday |-> <<>>]
Recurrence(freq, interval, until, byweekday) ==
    [kind |-> "object", freq |-> freq, interval |-> interval, until |-> until,
     byweekday |-> byweekday]

\* app.py:1077-1080
day_map == {"MO", "TU", "WE", "TH", "FR", "SA", "SU"}

\* app.py:1065-1073
until_part(until) ==
    LET has_time == \E i \in 1..Len(until) : until[i] = "T"
        until_date == IF has_time THEN BeforeFirst(until, "T") ELSE until
    IN  <<"UNTIL=">> \o Replace(until_date, <<"-">>, <<>>)

\* app.py:1075-1086: the BYDAY part, none for an empty day_list
byday_parts(days) ==
    LET InMap(day) == day \in day_map
        day_list == SelectSeq(days, InMap)
    IN  IF day_list = <<>> THEN <<>>
        ELSE << <<"BYDAY=">> \o Join([i \in 1..Len(day_list) |-> <<day_list[i]>>], ",") >>

\* app.py:1057-1086
UntilBeforeInterval(recurrence_obj) ==
    (IF Truthy(recurrence_obj.freq)
     THEN << <<"FREQ=">> \o UpperStr(recurrence_obj.freq) >> ELSE <<>>)
    \o (IF Truthy(recurrence_obj.until) THEN <<until_part(recurrence_obj.until)>> ELSE <<>>)
    \o (IF recurrence_obj.interval # 0
        THEN << <<"INTERVAL=">> \o Str(recurrence_obj.interval) >> ELSE <<>>)
    \o (IF recurrence_obj.byweekday # <<>> THEN byday_parts(recurrence_obj.byweekday) ELSE <<>>)
rrule_parts(recurrence_obj) ==
    (IF Truthy(recurrence_obj.freq)
     THEN << <<"FREQ=">> \o UpperStr(recurrence_obj.freq) >> ELSE <<>>)
    \o (IF recurrence_obj.interval # 0
        THEN << <<"INTERVAL=">> \o Str(recurrence_obj.interval) >> ELSE <<>>)
    \o (IF Truthy(recurrence_obj.until) THEN <<until_part(recurrence_obj.until)>> ELSE <<>>)
    \o (IF recurrence_obj.byweekday # <<>> THEN byday_parts(recurrence_obj.byweekday) ELSE <<>>)

\* app.py:1053-1094: event_data['recurrence'], <<>> when the key is not set
recurrence(recurrence_obj) ==
    IF recurrence_obj.kind # "object" THEN <<>>
    ELSE LET parts == rrule_parts(recurrence_obj)
         IN  IF parts # <<>>
             THEN << <<"RRULE:">> \o Join(parts, ";") >>
             ELSE << <<"RRULE:", "FREQ=", "D", "A", "I", "L", "Y">> >>

\* app.py:1105: the minutes of one reminder
FirstDigitOnly(reminder) ==
    int(SubSeq(Replace(Replace(reminder, <<"P", "T">>, <<>>), <<"M">>, <<>>), 1, 1))
minutes(reminder) ==
    int(Replace(Replace(reminder, <<"P", "T">>, <<>>), <<"M">>, <<>>))

\* app.py:1097-1106: event_data['reminders'], not set for null and for []
NoReminders == [set |-> FALSE, raised |-> FALSE, useDefault |-> TRUE, overrides |-> <<>>]
reminders(list) ==
    IF list = <<>> THEN NoReminders
    ELSE LET parsed == [i \in 1..Len(list) |-> minutes(list[i])]
         IN  [set |-> TRUE,
              raised |-> \E i \in 1..Len(list) : parsed[i].raised,
              useDefault |-> FALSE,
              overrides |-> [i \in 1..Len(list) |->
                                [method |-> "popup", minutes |-> parsed[i].value]]]

\* app.py:1045-1049: the end date of an all-day event
EndDateSameMonth(date) == [raised |-> strptime(date).raised, date |-> date + 1]
end_date(date) ==
    LET start_date == strptime(date)
    IN  [raised |-> start_date.raised,
         date |-> IF start_date.raised THEN 0 ELSE strftime(start_date.ordinal + 1)]

\* app.py:1020-1106: event_data, given the reminders and the all-day end
\* computed from the instruction, and whether building it threw
build_event_data(instruction_, rem, end) ==
    LET all_day == ~instruction_.datetime_end.set /\ instruction_.date # 0
                       /\ ~instruction_.datetime_start.set
    IN  [raised |-> (all_day /\ end.raised) \/ rem.raised,
         summary |-> Get(instruction_.title, <<"Untitled Event">>),
         start |-> IF instruction_.datetime_start.set
                   THEN DateTimeStart(instruction_.datetime_start)
                   ELSE IF instruction_.date # 0 THEN DateStart(instruction_.date)
                   ELSE NoStart,
         end |-> IF instruction_.datetime_end.set
                 THEN DateTimeStart(instruction_.datetime_end)
                 ELSE IF all_day THEN DateStart(end.date)
                 ELSE NoStart,
         recurrence |-> recurrence(instruction_.recurrence),
         reminders |-> [set |-> rem.set, useDefault |-> rem.useDefault,
                        overrides |-> rem.overrides]]

event_data(instruction_) ==
    build_event_data(instruction_, reminders(instruction_.reminders),
                     end_date(instruction_.date))

\* an insert that is tried again after it failed
InsertRetried(data, f) ==
    IF f = "credentials" THEN Out(<<Credentials>>, CredentialsError)
    ELSE IF data.raised
    THEN Out(<<Credentials>>, Error("Failed to create calendar event: ", ProviderError))
    ELSE IF f = "insert"
    THEN Out(<<Credentials, Call("events.insert", <<data>>), Call("events.insert", <<data>>)>>,
             Error("Failed to create calendar event: ", ProviderError))
    ELSE Out(<<Credentials, Call("events.insert", <<data>>)>>,
             Success("Event created successfully", data.summary, {"event"}, <<>>))

\* app.py:1111-1125: the insert of event_data and the dict returned
insert_event(data, f) ==
    LET body == [summary |-> data.summary, start |-> data.start, end |-> data.end,
                 recurrence |-> data.recurrence, reminders |-> data.reminders]
        cs == <<Credentials, Call("events.insert", <<body>>)>>
        failed == Error("Failed to create calendar event: ", ProviderError)
    IN  IF f = "credentials" THEN Out(<<Credentials>>, CredentialsError)
        ELSE IF data.raised THEN Out(<<Credentials>>, failed)
        ELSE IF f = "insert" THEN Out(cs, failed)
        ELSE Out(cs, Success("Event created successfully", body.summary, {"event"}, <<>>))

\* app.py:1012-1125
create_calendar_event_from_instruction(instruction_, f) ==
    insert_event(event_data(instruction_), f)

\* app.py:1139-1148
task_data(instruction_) ==
    [title |-> Get(instruction_.title, <<"Untitled Task">>),
     due |-> IF instruction_.datetime_start.set
             THEN DateTimeStart(instruction_.datetime_start)
             ELSE IF instruction_.date # 0 THEN DateStart(instruction_.date)
             ELSE NoStart]

\* app.py:1127-1163
create_task_from_instruction(instruction_, f) ==
    LET body == task_data(instruction_)
        tasklists == Call("tasklists.list", <<>>)
        cs == <<Credentials, tasklists, Call("tasks.insert", <<body>>)>>
        failed == Error("Failed to create task: ", ProviderError)
    IN  IF f = "credentials" THEN Out(<<Credentials>>, CredentialsError)
        ELSE IF f = "tasklists" THEN Out(<<Credentials, tasklists>>, failed)
        ELSE IF f = "insert" THEN Out(cs, failed)
        ELSE Out(cs, Success("Task created successfully", body.title, {"task"}, <<>>))

\* app.py:1165-1225
query_calendar_events_from_instruction(instruction_, evs, f) ==
    LET cs == <<Credentials, Call("events.list", <<>>)>>
    IN  IF f = "credentials" THEN Out(<<Credentials>>, CredentialsError)
        ELSE IF f = "list"
             THEN Out(cs, Error("Failed to query calendar events: ", ProviderError))
        ELSE Out(cs, Success("Found events", <<>>,
                             {"events", "count", "formatted_response"}, evs))

\* app.py:1227-1286
query_tasks_from_instruction(instruction_, tks, f) ==
    LET tasklists == Call("tasklists.list", <<>>)
        cs == <<Credentials, tasklists, Call("tasks.list", <<>>)>>
        failed == Error("Failed to query tasks: ", ProviderError)
    IN  IF f = "credentials" THEN Out(<<Credentials>>, CredentialsError)
        ELSE IF f = "tasklists" THEN Out(<<Credentials, tasklists>>, failed)
        ELSE IF f = "list" THEN Out(cs, failed)
        ELSE Out(cs, Success("Found tasks", <<>>,
                             {"tasks", "count", "formatted_response"}, tks))

\* app.py:1288-1291
UpdateByTitle(instruction_) ==
    Out(<<Credentials, Call("events.list", <<>>), Call("events.update", instruction_.title)>>,
        Success("Event updated successfully", instruction_.title, {"event"}, <<>>))
update_calendar_event_from_instruction(instruction_) ==
    Out(<<>>, Error("Event update requires event ID - not implemented yet", <<>>))

\* app.py:1293-1296
update_task_from_instruction(instruction_) ==
    Out(<<>>, Error("Task update requires task ID - not implemented yet", <<>>))

\* app.py:1298-1326
delete_calendar_event_from_instruction(instruction_, f) ==
    LET event_id == GetOrNone(instruction_.event_id)
        cs == <<Credentials, Call("events.delete", event_id)>>
    IN  IF f = "credentials" THEN Out(<<Credentials>>, CredentialsError)
        ELSE IF ~Truthy(event_id)
             THEN Out(<<Credentials>>, Error("Event ID is required for deletion", <<>>))
        ELSE IF f = "delete" THEN Out(cs, Error("Calendar API error: ", ProviderError))
        ELSE Out(cs, Success("Event deleted successfully", event_id, {"event_id"}, <<>>))

\* app.py:1328-1359
delete_task_from_instruction(instruction_, f) ==
    LET task_id == GetOrNone(instruction_.task_id)
        tasklists == Call("tasklists.list", <<>>)
        cs == <<Credentials, tasklists, Call("tasks.delete", task_id)>>
        failed == Error("Tasks API error: ", ProviderError)
    IN  IF f = "credentials" THEN Out(<<Credentials>>, CredentialsError)
        ELSE IF ~Truthy(task_id)
             THEN Out(<<Credentials>>, Error("Task ID is required for deletion", <<>>))
        ELSE IF f = "tasklists" THEN Out(<<Credentials, tasklists>>, failed)
        ELSE IF f = "delete" THEN Out(cs, failed)
        ELSE Out(cs, Success("Task deleted successfully", task_id, {"task_id"}, <<>>))

(***************************************************************************)
(* The dispatcher, app.py:912-1010.  parse is what lines 921-962 made of   *)
(* the reply: "no_match" (no 'instruction: {...}' in it), "malformed" (no  *)
(* JSON object could be parsed) or "ok", with the parsed object.           *)
(***************************************************************************)
NoneStr == "<None>"

\* app.py:1007
UnknownActionBare(action) == Error("Unknown action", <<>>)
UnknownAction(action) == Error("Unknown action: ", <<action>>)

\* app.py:964-1007: the if/elif chain on action and item_type
Dispatch(instruction_, evs, tks, f) ==
    LET action == instruction_.action
        item_type == instruction_.item_type
    IN  CASE action = "greeting" ->
               Out(<<>>, Success("Greeting processed", <<>>, {}, <<>>))
          [] action = "create" ->
               IF item_type = "event"
               THEN create_calendar_event_from_instruction(instruction_, f)
               ELSE IF item_type = "task"
               THEN create_task_from_instruction(instruction_, f)
               ELSE Out(<<>>, ReturnsNone)
          [] action = "update" ->
               IF item_type = "event"
               THEN update_calendar_event_from_instruction(instruction_)
               ELSE IF item_type = "task"
               THEN update_task_from_instruction(instruction_)
               ELSE Out(<<>>, ReturnsNone)
          [] action = "delete" ->
               IF item_type = "event"
               THEN delete_calendar_event_from_instruction(instruction_, f)
               ELSE IF item_type = "task"
               THEN delete_task_from_instruction(instruction_, f)
               ELSE Out(<<>>, ReturnsNone)
          [] action = "find_and_delete" ->
               IF item_type = "event"
               THEN find_and_delete_calendar_event_from_instruction(instruction_, evs, f)
               ELSE IF item_type = "task"
               THEN find_and_delete_task_from_instruction(instruction_, tks, f)
               ELSE Out(<<>>, ReturnsNone)
          [] action = "query" ->
               IF item_type = "event"
               THEN query_calendar_events_from_instruction(instruction_, evs, f)
               ELSE IF item_type = "task"
               THEN query_tasks_from_instruction(instruction_, tks, f)
               ELSE Out(<<>>, ReturnsNone)
          [] action = "clarification_needed" ->
               Out(<<>>, Envelope({"success", "message", "clarification"}, TRUE, NoText,
                                  Text("Clarification needed", <<>>), <<>>, TRUE))
          [] OTHER -> Out(<<>>, UnknownAction(action))

\* app.py:912-1010
process_ai_instruction(parse_, instruction_, evs, tks, f) ==
    IF parse_ = "no_match"
    THEN Out(<<>>, Error("No instruction found in AI response", <<>>))
    ELSE IF parse_ = "malformed"
    THEN Out(<<>>, Error("Failed to parse instruction JSON: ", <<>>))
    ELSE Dispatch(instruction_, evs, tks, f)

(***************************************************************************)
(* The inputs of the dispatcher: instruction objects, provider lists and   *)
(* the failing collaborator call, drawn from small sets.                   *)
(***************************************************************************)
Instr(action, item_type) ==
    [action |-> action, item_type |-> item_type, title |-> None,
     date |-> 0, datetime_start |-> NoDT, datetime_end |-> NoDT, time |-> NoTime,
     id |-> None, event_id |-> Absent, task_id |-> Absent,
     missing_fields |-> Absent, recurrence |-> NoRecurrence, reminders |-> <<>>]

Actions == {"greeting", "create", "update", "delete", "find_and_delete", "query",
            "clarification_needed"}
ActionableActions == {"create", "update", "delete", "find_and_delete", "query"}
OtherActions == {"remove", "Create", NoneStr}
ItemTypes == {"event", "task"}
OtherItemTypes == {"note", "Event", NoneStr}

InstrTitles == {<<"d">>, <<"D", "a">>, <<"d", "a", "q">>, <<"q">>, <<>>, None, Absent}
Summaries == {<<"D", "a">>, <<"D", "b">>, Absent}

\* the dates of the prompt's examples
DayA == Date(2025, 6, 27)
DayB == Date(2025, 6, 28)

EventTimeA == DT(DayA, 36000, TRUE, 0)
EventTimeB == DT(DayA, 36001, TRUE, 0)
HintTime == DT(DayA, 39601, TRUE, 0)
HintTimeNaive == DT(DayA, 39601, FALSE, 0)

Starts == {NoStart, DateStart(DayA), DateTimeStart(EventTimeA), DateTimeStart(EventTimeB)}

\* the date, datetime_start and time of a find_and_delete instruction
Hints == {<<0, NoDT, NoTime>>, <<DayA, NoDT, NoTime>>, <<DayB, NoDT, NoTime>>,
          <<0, HintTime, NoTime>>, <<0, HintTimeNaive, NoTime>>, <<0, NoDT, 600>>,
          <<DayA, HintTimeNaive, 601>>}

Ids == {None, Absent, <<>>, <<"e", "1">>}

\* the lists of up to MaxCands candidates; the provider's ids are distinct
MaxCands == 2

EventLists ==
    UNION { { [i \in 1..n |-> [id |-> i, summary |-> l[i][1], start |-> l[i][2]]] :
                l \in [1..n -> Summaries \X Starts] } : n \in 0..MaxCands }

TaskLists ==
    UNION { { [i \in 1..n |-> [id |-> i, title |-> l[i][1], due |-> l[i][2]]] :
                l \in [1..n -> Summaries \X {NoStart, DateTimeStart(EventTimeA)}] } :
            n \in 0..MaxCands }

SomeEvents == <<[id |-> 1, summary |-> <<"D", "a">>, start |-> DateStart(DayA)]>>
SomeTasks == <<[id |-> 1, title |-> <<"D", "a">>, due |-> NoStart]>>

Fails == {"none", "credentials", "tasklists", "list", "insert", "delete"}

FindAndDeleteInstrs(item_type) ==
    { [Instr("find_and_delete", item_type) EXCEPT
          !.title = t, !.date = h[1], !.datetime_start = h[2], !.time = h[3]] :
      t \in InstrTitles, h \in Hints }

DeleteInstrs(item_type) ==
    { [Instr("delete", item_type) EXCEPT !.id = i, !.event_id = e, !.task_id = k] :
      i \in {None, <<"e", "1">>}, e \in Ids, k \in Ids }

\* start dates of all-day events: inside a month, at the end of a month and
\* of a year, around 29 February, and one that is no date
CreateDates ==
    {DayA, Date(2025, 6, 30), Date(2025, 12, 31), Date(2025, 2, 28), Date(2024, 2, 28),
     Date(2024, 2, 29), Date(2100, 2, 28), Date(2000, 2, 28), Date(2025, 2, 30)}

Weekly == <<"w", "e", "e", "k", "l", "y">>
Daily == <<"D", "A", "I", "L", "Y">>
Freqs == {None, Weekly, Daily}

\* '2025-06-30' and '2025-12-31T09:30'
UntilDate == <<"2", "0", "2", "5", "-", "0", "6", "-", "3", "0">>
UntilDateTime ==
    <<"2", "0", "2", "5", "-", "1", "2", "-", "3", "1", "T", "0", "9", ":", "3", "0">>
Untils == {None, UntilDate, UntilDateTime}
Weekdays == {<<>>, <<"MO">>, <<"MO", "WE">>, <<"FR", "MO">>, <<"mo">>, <<"XX", "TU">>}

\* instruction['recurrence']
Recurrences ==
    {NoRecurrence, [NoRecurrence EXCEPT !.kind = "empty"]}
    \cup { Recurrence(fr, i, u, w) : fr \in Freqs, i \in {0, 1, 12}, u \in Untils,
                                     w \in Weekdays }

\* 'PT<n>M'
PTnM(n) == <<"P", "T">> \o Str(n) \o <<"M">>

ReminderMinutes == {5, 30, 120}

\* instruction['reminders']: lists of 'PT<n>M' entries, and lists with an
\* entry in hours
ReminderLists ==
    {<<>>, <<<<"P", "T", "1", "H">>>>, <<PTnM(30), <<"P", "T", "1", "H", "3", "0", "M">>>>}
    \cup { <<PTnM(n)>> : n \in ReminderMinutes }
    \cup { <<PTnM(n), PTnM(k)>> : n \in ReminderMinutes, k \in ReminderMinutes }

CreateInstrs(item_type) ==
    { [Instr("create", item_type) EXCEPT
          !.title = t, !.date = d, !.datetime_start = s, !.datetime_end = e] :
      t \in {<<"D", "a">>, None, Absent}, d \in {0, DayA},
      s \in {NoDT, EventTimeA}, e \in {NoDT, EventTimeB} }
    \cup { [Instr("create", item_type) EXCEPT !.title = <<"D", "a">>, !.date = d] :
             d \in CreateDates }
    \cup { [Instr("create", item_type) EXCEPT
               !.title = <<"D", "a">>, !.datetime_start = EventTimeA,
               !.datetime_end = EventTimeB, !.recurrence = r] : r \in Recurrences }
    \cup { [Instr("create", item_type) EXCEPT
               !.title = <<"D", "a">>, !.date = DayA, !.reminders = r] :
             r \in ReminderLists }

UpdateInstrs(item_type) ==
    { [Instr("update", item_type) EXCEPT !.title = t, !.date = d, !.id = i] :
      t \in {None, <<"D", "a">>}, d \in {0, DayA}, i \in {None, <<"e", "1">>} }

\* the missing_fields of a clarification_needed instruction
MissingFields == {Absent, None, <<>>, <<"date">>, <<"date", "time">>}

QueryInstrs(item_type) ==
    { [Instr("query", item_type) EXCEPT !.date = d] : d \in {0, DayA} }

(***************************************************************************)
(* From the reply text to the instruction object, app.py:890-962.  A text  *)
(* is a sequence of units: every punctuation mark and blank is a unit of   *)
(* its own, and so is every run of letters or digits the text is built of. *)
(* LQuote and RQuote are the curly double quotes U+201C and U+201D.        *)
(***************************************************************************)
Quote == "\""
LQuote == "<ldquo>"
RQuote == "<rdquo>"

\* whitespace of str.strip(), of \s and of JSON
IsWs(c) == c \in {" ", "\n", "\t", "\r"}

\* the first index from i on that holds no whitespace
RECURSIVE SkipWs(_, _)
SkipWs(text, i) ==
    IF i <= Len(text) /\ IsWs(text[i]) THEN SkipWs(text, i + 1) ELSE i

\* the last index up to i that holds no whitespace
RECURSIVE SkipWsBack(_, _)
SkipWsBack(text, i) ==
    IF i >= 1 /\ IsWs(text[i]) THEN SkipWsBack(text, i - 1) ELSE i

\* str.strip()
Strip(text) == SubSeq(text, SkipWs(text, 1), SkipWsBack(text, Len(text)))

\* JSON values: null, true/false, a number, a string (its units), an array
\* (its values), an object (a function from its keys to its values); JAbsent
\* is what dict.get gives the model for a key that is not there
JValue(t, str, arr, obj) == [t |-> t, s |-> str, a |-> arr, o |-> obj]
JNull == JValue("null", <<>>, <<>>, <<>>)
JAbsent == JValue("absent", <<>>, <<>>, <<>>)
JStr(str) == JValue("str", str, <<>>, <<>>)
JArr(arr) == JValue("arr", <<>>, arr, <<>>)
JObj(obj) == JValue("obj", <<>>, <<>>, obj)

JLiterals == {"null", "true", "false", "0", "1", "30"}
JLiteral(unit) == IF unit = "null" THEN JNull ELSE JValue("literal", <<unit>>, <<>>, <<>>)

ParseFail == [ok |-> FALSE, val |-> JNull, next |-> 0]
ParseOk(val, next) == [ok |-> TRUE, val |-> val, next |-> next]

\* the index of the quote that closes the string opened before i, 0 if none
StringEnd(text, i) ==
    LET ends == {j \in i..Len(text) : text[j] = Quote}
    IN  IF ends = {} THEN 0 ELSE CHOOSE j \in ends : \A k \in ends : j <= k

\* the string that opens at i; a control character in it is an error
StringUpTo(text, i, end) ==
    IF end = 0 \/ \E j \in (i + 1)..(end - 1) : text[j] \in {"\n", "\t", "\r"}
    THEN ParseFail
    ELSE ParseOk(JStr(SubSeq(text, i + 1, end - 1)), end + 1)

ParseString(text, i) == StringUpTo(text, i, StringEnd(text, i + 1))

\* dict[key] = value
Put(obj, key, value) ==
    [k \in (DOMAIN obj) \cup {key} |-> IF k = key THEN value ELSE obj[k]]

\* json.loads's scanner: the value that starts at i (no whitespace at i), the
\* rest of an array after '[' or ',', and of an object after '{' or ','
RECURSIVE ParseValue(_, _)
RECURSIVE ParseElements(_, _, _)
RECURSIVE ParseMembers(_, _, _)
RECURSIVE AfterElement(_, _, _)
RECURSIVE AfterKey(_, _, _)
RECURSIVE AfterMember(_, _, _, _)

ParseValue(text, i) ==
    IF i > Len(text) THEN ParseFail
    ELSE IF text[i] = Quote THEN ParseString(text, i)
    ELSE IF text[i] = "{" THEN
        (IF SkipWs(text, i + 1) <= Len(text) /\ text[SkipWs(text, i + 1)] = "}"
         THEN ParseOk(JObj(<<>>), SkipWs(text, i + 1) + 1)
         ELSE ParseMembers(text, SkipWs(text, i + 1), <<>>))
    ELSE IF text[i] = "[" THEN
        (IF SkipWs(text, i + 1) <= Len(text) /\ text[SkipWs(text, i + 1)] = "]"
         THEN ParseOk(JArr(<<>>), SkipWs(text, i + 1) + 1)
         ELSE ParseElements(text, SkipWs(text, i + 1), <<>>))
    ELSE IF text[i] \in JLiterals THEN ParseOk(JLiteral(text[i]), i + 1)
    ELSE ParseFail

ParseElements(text, i, arr) == AfterElement(text, ParseValue(text, i), arr)

AfterElement(text, v, arr) ==
    IF ~v.ok \/ SkipWs(text, v.next) > Len(text) THEN ParseFail
    ELSE IF text[SkipWs(text, v.next)] = "]"
    THEN ParseOk(JArr(Append(arr, v.val)), SkipWs(text, v.next) + 1)
    ELSE IF text[SkipWs(text, v.next)] = ","
    THEN ParseElements(text, SkipWs(text, SkipWs(text, v.next) + 1), Append(arr, v.val))
    ELSE ParseFail

ParseMembers(text, i, obj) ==
    IF i > Len(text) \/ text[i] # Quote THEN ParseFail
    ELSE AfterKey(text, ParseString(text, i), obj)

AfterKey(text, k, obj) ==
    IF ~k.ok \/ SkipWs(text, k.next) > Len(text) THEN ParseFail
    ELSE IF text[SkipWs(text, k.next)] # ":" THEN ParseFail
    ELSE AfterMember(text, k.val.s,
                     ParseValue(text, SkipWs(text, SkipWs(text, k.next) + 1)), obj)

AfterMember(text, key, v, obj) ==
    IF ~v.ok \/ SkipWs(text, v.next) > Len(text) THEN ParseFail
    ELSE IF text[SkipWs(text, v.next)] = "}"
    THEN ParseOk(JObj(Put(obj, key, v.val)), SkipWs(text, v.next) + 1)
    ELSE IF text[SkipWs(text, v.next)] = ","
    THEN ParseMembers(text, SkipWs(text, SkipWs(text, v.next) + 1), Put(obj, key, v.val))
    ELSE ParseFail

\* a value and nothing but whitespace after it, or JSONDecodeError
WholeValue(text, v) ==
    IF v.ok /\ SkipWs(text, v.next) > Len(text)
    THEN [raised |-> FALSE, value |-> v.val]
    ELSE [raised |-> TRUE, value |-> JNull]

\* json.loads(text)
json_loads(text) == WholeValue(text, ParseValue(text, SkipWs(text, 1)))

\* app.py:897, 900: re.sub of ',(\s*[}\]])' and of ',(\s*})' by the group:
\* the commas that whitespace and a closer follow are dropped
DropCommas(text, closers) ==
    LET Kept(i) == ~ /\ text[i] = ","
                     /\ SkipWs(text, i + 1) <= Len(text)
                     /\ text[SkipWs(text, i + 1)] \in closers
        kept == SelectSeq([i \in 1..Len(text) |-> i], Kept)
    IN  [k \in 1..Len(kept) |-> text[kept[k]]]

\* app.py:904: the text between the first two apostrophes of the line, which
\* Python reads as one string literal
CommaQuoteLiteral == <<",", " ", Quote, "'", Quote, ")", ".", "replace", "(">>

\* app.py:890-909
clean_json_string(json_str) ==
    Strip(Replace(
            Replace(Replace(DropCommas(DropCommas(json_str, {"}", "]"}), {"}"}),
                            <<Quote>>, <<Quote>>),
                    <<Quote>>, <<Quote>>),
            CommaQuoteLiteral, <<"'">>))

\* app.py:922: re.search(r'instruction:\s*(\{.*\})', ai_response, re.DOTALL):
\* the leftmost label that whitespace, a '{' and somewhere a '}' follow; the
\* group runs from that '{' to the last '}' of the text
LabelAt(text, i) == i + 1 <= Len(text) /\ text[i] = "instruction" /\ text[i + 1] = ":"

BraceAfter(text, i) ==
    /\ SkipWs(text, i) <= Len(text)
    /\ text[SkipWs(text, i)] = "{"
    /\ \E e \in (SkipWs(text, i) + 1)..Len(text) : text[e] = "}"

LastBrace(text) == CHOOSE e \in 1..Len(text) :
                       text[e] = "}" /\ \A k \in (e + 1)..Len(text) : text[k] # "}"

NoMatchGroup == [matched |-> FALSE, group |-> <<>>]
GroupFrom(text, start) ==
    [matched |-> TRUE, group |-> SubSeq(text, start, LastBrace(text))]

\* a search that does not ask for the label
RECURSIVE AnyBracesFrom(_, _)
AnyBracesFrom(text, i) ==
    IF i > Len(text) THEN NoMatchGroup
    ELSE IF text[i] = "{" /\ BraceAfter(text, i) THEN GroupFrom(text, i)
    ELSE AnyBracesFrom(text, i + 1)

AnyBraces(text) == AnyBracesFrom(text, 1)

SearchFrom(text, i) ==
    LET hits == {j \in i..Len(text) : LabelAt(text, j) /\ BraceAfter(text, j + 2)}
        first == CHOOSE j \in hits : \A k \in hits : j <= k
    IN  IF hits = {} THEN NoMatchGroup ELSE GroupFrom(text, SkipWs(text, first + 2))

instruction_match(text) == SearchFrom(text, 1)

\* a scan that runs to the last closing brace of the text
ToLastBrace(instruction_str, i, brace_count) ==
    IF \E e \in 1..Len(instruction_str) : instruction_str[e] = "}"
    THEN LastBrace(instruction_str) ELSE 0

\* the first index from i on that holds a brace, 0 if none
NextBrace(text, i) ==
    LET braces == {j \in i..Len(text) : text[j] \in {"{", "}"}}
    IN  IF braces = {} THEN 0 ELSE CHOOSE j \in braces : \A k \in braces : j <= k

\* app.py:943-956: the index where the braces opened from start_pos on are
\* all closed, 0 when the loop ends without it; the loop's steps over the
\* characters that are no brace change nothing, and are taken at once
RECURSIVE BalancedEnd(_, _, _)
BalancedEnd(instruction_str, i, brace_count) ==
    LET at == NextBrace(instruction_str, i)
    IN  IF at = 0 THEN 0
        ELSE IF instruction_str[at] = "{"
        THEN BalancedEnd(instruction_str, at + 1, brace_count + 1)
        ELSE IF brace_count = 1 THEN at
        ELSE BalancedEnd(instruction_str, at + 1, brace_count - 1)

\* str.find('{'), 0 for -1
FindBrace(text, i) ==
    LET found == {j \in i..Len(text) : text[j] = "{"}
    IN  IF found = {} THEN 0 ELSE CHOOSE j \in found : \A k \in found : j <= k

Extracted(parse_, object) == [parse |-> parse_, object |-> object]

\* app.py:954-962: the parse of the first complete object
SecondParse(second) ==
    IF second.raised THEN Extracted("malformed", JNull) ELSE Extracted("ok", second.value)

\* app.py:941-960
RecoverFrom(instruction_str, start_pos, end) ==
    IF start_pos = 0 \/ end = 0 THEN Extracted("malformed", JNull)
    ELSE SecondParse(json_loads(SubSeq(instruction_str, start_pos, end)))

Recover(instruction_str, start_pos) ==
    RecoverFrom(instruction_str, start_pos,
                IF start_pos = 0 THEN 0 ELSE BalancedEnd(instruction_str, start_pos, 0))

\* app.py:932-962
FirstParse(instruction_str, first) ==
    IF ~first.raised THEN Extracted("ok", first.value)
    ELSE Recover(instruction_str, FindBrace(instruction_str, 1))

\* app.py:929-962
ParseCleaned(instruction_str) == FirstParse(instruction_str, json_loads(instruction_str))

\* app.py:922-962
ExtractMatch(instruction_match_) ==
    IF ~instruction_match_.matched THEN Extracted("no_match", JNull)
    ELSE ParseCleaned(clean_json_string(instruction_match_.group))

extract_instruction(ai_response_) == ExtractMatch(instruction_match(ai_response_))

\* instruction.get(key) in the terms of the dispatcher's inputs
Field(object, key) == IF key \in DOMAIN object.o THEN object.o[key] ELSE JAbsent

AsWord(v) ==
    IF v.t = "str" /\ Len(v.s) = 1 THEN v.s[1]
    ELSE IF v.t \in {"null", "absent"} THEN NoneStr
    ELSE "<other>"

AsText(v) ==
    IF v.t = "str" THEN v.s ELSE IF v.t = "absent" THEN Absent ELSE None

AsList(v) ==
    IF v.t = "arr" THEN [i \in 1..Len(v.a) |-> AsWord(v.a[i])]
    ELSE IF v.t = "absent" THEN Absent ELSE None

\* the parsed object as the instruction the dispatcher reads: its action,
\* item_type, title and missing_fields
InstrOf(object) ==
    [Instr(AsWord(Field(object, <<"action">>)), AsWord(Field(object, <<"item_type">>)))
        EXCEPT !.title = AsText(Field(object, <<"title">>)),
               !.missing_fields = AsList(Field(object, <<"missing_fields">>))]

\* app.py:912-1010, from the reply text
ProcessExtracted(x, evs, tks, f) ==
    process_ai_instruction(x.parse, InstrOf(x.object), evs, tks, f)

(***************************************************************************)
(* Reply texts.  An object is written from its members in one of three     *)
(* styles: "strict", "trailing" (a comma before every closing brace and    *)
(* bracket) and "curly" (curly double quotes around keys and strings).     *)
(***************************************************************************)
Opening(style) == IF style = "curly" THEN LQuote ELSE Quote
Closing(style) == IF style = "curly" THEN RQuote ELSE Quote
TrailingComma(style) == IF style = "trailing" THEN <<",">> ELSE <<>>

WriteString(str, style) == <<Opening(style)>> \o str \o <<Closing(style)>>

RECURSIVE WriteList(_, _)
WriteList(strs, style) ==
    IF strs = <<>> THEN <<>>
    ELSE IF Len(strs) = 1 THEN WriteString(strs[1], style) \o TrailingComma(style)
    ELSE WriteString(strs[1], style) \o <<",", " ">> \o WriteList(Tail(strs), style)

\* a member's value: a string, a list of strings, null or the empty object
WriteValue(v, style) ==
    IF v.t = "str" THEN WriteString(v.s, style)
    ELSE IF v.t = "list" THEN <<"[">> \o WriteList(v.s, style) \o <<"]">>
    ELSE IF v.t = "null" THEN <<"null">>
    ELSE <<"{", "}">>

RECURSIVE WriteMembers(_, _)
WriteMembers(members, style) ==
    IF members = <<>> THEN <<>>
    ELSE WriteString(<<members[1][1]>>, style) \o <<":", " ">>
             \o WriteValue(members[1][2], style)
             \o (IF Len(members) = 1 THEN TrailingComma(style) ELSE <<",", "\n">>)
             \o WriteMembers(Tail(members), style)

WriteObject(members, style) ==
    <<"{">> \o WriteMembers(members, style) \o <<"}">>

Str_(str) == [t |-> "str", s |-> str]
List_(strs) == [t |-> "list", s |-> strs]
Null_ == [t |-> "null", s |-> <<>>]
Object_ == [t |-> "object", s |-> <<>>]

\* titles: plain, with a comma, with a comma before a closing brace and
\* before a closing bracket, with braces and brackets, and null
WrittenTitles ==
    {Null_, Str_(<<"D", "a">>), Str_(<<"a", ",", " ", "b">>), Str_(<<"a", ",", "}">>),
     Str_(<<"a", ",", " ", "]">>), Str_(<<"{", "a", "}", " ", "[", "b", "]">>)}

WrittenGreeting == << <<"action", Str_(<<"greeting">>)>> >>

WrittenObjects ==
    { << <<"action", Str_(<<a[1]>>)>>, <<"item_type", Str_(<<a[2]>>)>>, <<"title", t>>,
         <<"other_fields", Object_>> >> :
        a \in {<<"find_and_delete", "event">>, <<"create", "task">>, <<"query", "event">>},
        t \in WrittenTitles }
    \cup { WrittenGreeting,
           << <<"action", Str_(<<"clarification_needed">>)>>,
              <<"missing_fields", List_(<< <<"date">>, <<"time">> >>)>> >>,
           << <<"action", Str_(<<"clarification_needed">>)>>,
              <<"missing_fields", List_(<<>>)>>, <<"item_type", Null_>> >> }

Label == <<"instruction", ":">>

\* what the reply says before the label and after the object
Before == {<<>>, <<"Sure", "!", "\n">>}
After ==
    {<<>>,
     <<"\n", "userReply", ":", " ", Quote, "ok", Quote>>,
     <<"\n", "userReply", ":", " ", Quote, "ok", " ", "{", "x", "}", Quote>>}

LabelledReply(before, members, style, after) ==
    before \o Label \o <<" ">> \o WriteObject(members, style) \o after

NotWritten == [style |-> "none", text |-> <<>>, strict |-> <<>>]
Bare == [style |-> "bare", text |-> <<>>, strict |-> <<>>]
Written(members, style) ==
    [style |-> style, text |-> WriteObject(members, style),
     strict |-> WriteObject(members, "strict")]

\* replies without the label followed by an object
UnlabelledReplies ==
    {<<>>,
     <<"Hello", "!">>,
     Label,
     Label \o <<" ", "none">>,
     Label \o <<" ", "{", Quote, "action", Quote>>,
     Label \o <<" ", "see", " ">> \o WriteObject(WrittenGreeting, "strict"),
     <<"Instruction", ":", " ">> \o WriteObject(WrittenGreeting, "strict"),
     <<"instruction", " ">> \o WriteObject(WrittenGreeting, "strict"),
     WriteObject(<< <<"action", Str_(<<"query">>)>>, <<"item_type", Str_(<<"event">>)>> >>,
                 "strict"),
     <<"}", " ">> \o Label \o <<" ", "{">>}

\* replies with two instruction objects, the second with or without a label
Second == {WrittenGreeting,
           << <<"action", Str_(<<"query">>)>>, <<"item_type", Str_(<<"task">>)>> >>,
           << <<"action", Str_(<<"find_and_delete">>)>>, <<"item_type", Str_(<<"event">>)>>,
              <<"title", Str_(<<"D", "a">>)>> >>}
Between == {<<"\n">>, <<"\n">> \o Label \o <<" ">>}

SeveralReply(first, between, second) ==
    Label \o <<" ">> \o WriteObject(first, "strict") \o between \o WriteObject(second, "strict")

First(members) ==
    [style |-> "several", text |-> WriteObject(members, "strict"),
     strict |-> WriteObject(members, "strict")]

\* replies whose block after the label is no object: a brace never closed,
\* a first span that is no JSON, a brace too many, a value cut short
Broken == [style |-> "broken", text |-> <<>>, strict |-> <<>>]
BrokenReplies ==
    {Label \o <<" ", "{", " ">> \o WriteObject(WrittenGreeting, "strict"),
     Label \o <<" ", "{", "oops", "}", " ">> \o WriteObject(WrittenGreeting, "strict"),
     Label \o <<" ", "{", "}", "}">>,
     Label \o <<" ">> \o WriteObject(WrittenGreeting, "strict") \o <<"}">>,
     Label \o <<" ", "{", Quote, "action", Quote, ":", " ", "{", "}">>,
     Label \o <<" ", "{", Quote, "action", Quote, ":", " ", Quote, "greeting", "}">>,
     Label \o <<" ", "{", Quote, "action", Quote, " ", Quote, "greeting", Quote, "}", "\n">>
         \o WriteObject(WrittenGreeting, "strict")}

(***************************************************************************)
(* The two request endpoints, app.py:147-225 and 326-360.  A request is    *)
(* followed statement by statement over s: the store as the request has    *)
(* left it so far, the steps taken (trace), whether the reply's            *)
(* instruction was dispatched, and the HTTP status.                        *)
(***************************************************************************)
\* user_id of a request: a user's id, or '' or None (no key 'user_id')
NoUserIds == {NoneStr, ""}
UserIds == Users \cup NoUserIds

\* app.py:335, 189, 204, 249: `if user_id`
HasUserId(user_id) == user_id \notin NoUserIds

\* app.py:251: max_messages of the prompt's history
PromptMessages == 8

NoRequest == [endpoint |-> "none", file |-> "none", user_id |-> NoneStr, status |-> 0]

Step(kind, history) == [step |-> kind, history |-> history]

Entering(ch, hp, app) ==
    [ch |-> ch, hp |-> hp, appended |-> app, trace |-> <<>>, dispatched |-> FALSE,
     status |-> 200]

\* a key that all users share
SharedKey(user_id) == "u1"

\* app.py:339, 192, 195: the key the endpoint passes to the store
HistoryKey(user_id) == user_id

\* the store after add_to_conversation_history(key, ...) of entry
Stored(s, key, entry, kind, after) ==
    [s EXCEPT !.ch = after.ch, !.hp = after.hp,
              !.appended[key] = Append(@, entry),
              !.trace = Append(@, Step(kind, <<>>))]

AddEntry(s, key, entry, kind) ==
    Stored(s, key, entry, kind, add_to_conversation_history(s.ch, s.hp, key, entry))

\* app.py:339 / 342, 192 / 195: add_to_conversation_history(user_id, ..., is_user)
AddMessage(s, user_id, is_user) ==
    AddEntry(s, HistoryKey(user_id), Entry(Len(s.appended[HistoryKey(user_id)]) + 1),
             IF is_user THEN "append_user" ELSE "append_reply")

\* app.py:234-285: process_text_with_ai_internal; the prompt holds the last
\* 8 messages of the user's history, of nobody's without user id
Completion(s, user_id) ==
    [s EXCEPT !.trace =
        Append(@, Step("completion",
                       IF HasUserId(user_id)
                       THEN get_conversation_history(s.ch, s.hp, user_id, PromptMessages)
                       ELSE <<>>))]

\* app.py:348, 205: process_ai_instruction(ai_response, user_id)
Dispatched(s) ==
    [s EXCEPT !.trace = Append(@, Step("dispatch", <<>>)), !.dispatched = TRUE]

\* app.py:326-360
process_text_with_ai(s, user_id) ==
    IF ~HasUserId(user_id) THEN [s EXCEPT !.status = 400]
    ELSE Dispatched(AddMessage(Completion(AddMessage(s, user_id, TRUE), user_id),
                               user_id, FALSE))

\* app.py:186-205, with user id
RecordAndDispatch(s, user_id) ==
    Dispatched(AddMessage(AddMessage(s, user_id, TRUE), user_id, FALSE))

\* app.py:147-225; file is "none" (no file part), "pdf", "image" or "other"
extract_file_text(s, file, user_id) ==
    IF file \notin {"pdf", "image"} THEN [s EXCEPT !.status = 400]
    ELSE IF HasUserId(user_id) THEN RecordAndDispatch(Completion(s, user_id), user_id)
    ELSE Completion(s, user_id)

\* the completions of the model: a greeting, a find_and_delete of "Da", a
\* create of a task, and the text returned when the completion failed
Replies ==
    {LabelledReply(<<>>, WrittenGreeting, "strict", <<>>),
     LabelledReply(<<>>, << <<"action", Str_(<<"find_and_delete">>)>>,
                            <<"item_type", Str_(<<"event">>)>>,
                            <<"title", Str_(<<"D", "a">>)>> >>, "strict", <<>>),
     LabelledReply(<<>>, << <<"action", Str_(<<"create">>)>>,
                            <<"item_type", Str_(<<"task">>)>>,
                            <<"title", Str_(<<"D", "a">>)>> >>, "strict", <<>>),
     <<"Error", ":", " ", "Failed", " ", "to", " ", "get", " ", "response">>}

Files == {"none", "pdf", "image", "other"}

DispatchIdle ==
    /\ pc = "idle"
    /\ parse = "none"
    /\ instruction = Instr(NoneStr, NoneStr)
    /\ events = <<>>
    /\ tasks = <<>>
    /\ fail = "none"
    /\ calls = <<>>
    /\ result = ReturnsNone
    /\ ai_response = <<>>
    /\ written = NotWritten
    /\ request = NoRequest
    /\ trace = <<>>

DispatchInit == DispatchIdle

\* one call of process_ai_instruction(ai_response, user_id), from call to return
ProcessCall(parse_, instruction_, evs, tks, f) ==
    /\ pc = "idle"
    /\ pc' = "done"
    /\ parse' = parse_
    /\ instruction' = instruction_
    /\ events' = evs
    /\ tasks' = tks
    /\ fail' = f
    /\ LET out == process_ai_instruction(parse_, instruction_, evs, tks, f)
       IN  /\ calls' = out.calls
           /\ result' = out.result
    /\ UNCHANGED <<ai_response, written, request, trace>>
    /\ UNCHANGED storeVars

NoInstructionFound ==
    /\ pc = "idle"
    /\ \E a \in Actions :
           ProcessCall("no_match", Instr(a, "event"), SomeEvents, SomeTasks, "none")

MalformedInstruction ==
    /\ pc = "idle"
    /\ \E a \in Actions :
           ProcessCall("malformed", Instr(a, "event"), SomeEvents, SomeTasks, "none")

Greeting ==
    /\ pc = "idle"
    /\ \E t \in ItemTypes \cup OtherItemTypes, f \in Fails :
           ProcessCall("ok", Instr("greeting", t), SomeEvents, SomeTasks, f)

ClarificationNeeded ==
    /\ pc = "idle"
    /\ \E t \in ItemTypes \cup OtherItemTypes, f \in Fails, m \in MissingFields :
           ProcessCall("ok", [Instr("clarification_needed", t) EXCEPT !.missing_fields = m],
                       SomeEvents, SomeTasks, f)

CreateEvent ==
    /\ pc = "idle"
    /\ \E i \in CreateInstrs("event"), f \in Fails :
           ProcessCall("ok", i, SomeEvents, SomeTasks, f)

CreateTask ==
    /\ pc = "idle"
    /\ \E i \in CreateInstrs("task"), f \in Fails :
           ProcessCall("ok", i, SomeEvents, SomeTasks, f)

UpdateEvent ==
    /\ pc = "idle"
    /\ \E i \in UpdateInstrs("event"), f \in Fails :
           ProcessCall("ok", i, SomeEvents, SomeTasks, f)

UpdateTask ==
    /\ pc = "idle"
    /\ \E i \in UpdateInstrs("task"), f \in Fails :
           ProcessCall("ok", i, SomeEvents, SomeTasks, f)

DeleteEvent ==
    /\ pc = "idle"
    /\ \E i \in DeleteInstrs("event"), f \in Fails :
           ProcessCall("ok", i, SomeEvents, SomeTasks, f)

DeleteTask ==
    /\ pc = "idle"
    /\ \E i \in DeleteInstrs("task"), f \in Fails :
           ProcessCall("ok", i, SomeEvents, SomeTasks, f)

FindAndDeleteEvent ==
    /\ pc = "idle"
    /\ \E i \in FindAndDeleteInstrs("event"), evs \in EventLists,
          f \in {"none", "credentials", "list", "delete"} :
           ProcessCall("ok", i, evs, SomeTasks, f)

FindAndDeleteTask ==
    /\ pc = "idle"
    /\ \E i \in FindAndDeleteInstrs("task"), tks \in TaskLists, f \in Fails :
           ProcessCall("ok", i, SomeEvents, tks, f)

QueryEvents ==
    /\ pc = "idle"
    /\ \E i \in QueryInstrs("event"), evs \in {<<>>, SomeEvents}, f \in Fails :
           ProcessCall("ok", i, evs, SomeTasks, f)

QueryTasks ==
    /\ pc = "idle"
    /\ \E i \in QueryInstrs("task"), tks \in {<<>>, SomeTasks}, f \in Fails :
           ProcessCall("ok", i, SomeEvents, tks, f)

\* an actionable action whose item_type is neither 'event' nor 'task'
OtherItemType ==
    /\ pc = "idle"
    /\ \E a \in ActionableActions, t \in OtherItemTypes, f \in Fails,
          title \in {None, <<"D", "a">>} :
           ProcessCall("ok", [Instr(a, t) EXCEPT !.title = title], SomeEvents, SomeTasks, f)

\* an action that is none of the seven
OtherAction ==
    /\ pc = "idle"
    /\ \E a \in OtherActions, t \in ItemTypes \cup OtherItemTypes, f \in Fails :
           ProcessCall("ok", Instr(a, t), SomeEvents, SomeTasks, f)

\* the caller takes the result; the next call starts afresh
Return ==
    /\ pc = "done"
    /\ pc' = "idle"
    /\ parse' = "none"
    /\ instruction' = Instr(NoneStr, NoneStr)
    /\ events' = <<>>
    /\ tasks' = <<>>
    /\ fail' = "none"
    /\ calls' = <<>>
    /\ result' = ReturnsNone
    /\ ai_response' = <<>>
    /\ written' = NotWritten
    /\ request' = NoRequest
    /\ trace' = <<>>
    /\ UNCHANGED storeVars

\* one call of process_ai_instruction(ai_response, user_id), from the text: x
\* is what lines 922-962 make of the text
ProcessText(text, w, x) ==
    /\ pc = "idle"
    /\ pc' = "done"
    /\ ai_response' = text
    /\ written' = w
    /\ parse' = x.parse
    /\ instruction' = InstrOf(x.object)
    /\ events' = SomeEvents
    /\ tasks' = SomeTasks
    /\ fail' = "none"
    /\ calls' = ProcessExtracted(x, SomeEvents, SomeTasks, "none").calls
    /\ result' = ProcessExtracted(x, SomeEvents, SomeTasks, "none").result
    /\ UNCHANGED <<request, trace>>
    /\ UNCHANGED storeVars

ProcessReply(before, members, style, after) ==
    ProcessText(LabelledReply(before, members, style, after), Written(members, style),
                extract_instruction(LabelledReply(before, members, style, after)))

StrictReply ==
    /\ pc = "idle"
    /\ \E b \in Before, m \in WrittenObjects, a \in After : ProcessReply(b, m, "strict", a)

TrailingCommaReply ==
    /\ pc = "idle"
    /\ \E b \in Before, m \in WrittenObjects, a \in After : ProcessReply(b, m, "trailing", a)

SmartQuoteReply ==
    /\ pc = "idle"
    /\ \E b \in Before, m \in WrittenObjects, a \in After : ProcessReply(b, m, "curly", a)

UnlabelledReply ==
    /\ pc = "idle"
    /\ \E text \in UnlabelledReplies : ProcessText(text, Bare, extract_instruction(text))

ProcessSeveral(first, between, second) ==
    ProcessText(SeveralReply(first, between, second), First(first),
                extract_instruction(SeveralReply(first, between, second)))

SeveralInstructions ==
    /\ pc = "idle"
    /\ \E m \in WrittenObjects, b \in Between, n \in Second : ProcessSeveral(m, b, n)

BrokenReply ==
    /\ pc = "idle"
    /\ \E text \in BrokenReplies : ProcessText(text, Broken, extract_instruction(text))

\* one request, from its arrival to its response: s is the state the
\* endpoint ends in, out what process_ai_instruction made of the reply
Respond(endpoint, file, user_id, reply, s, x, out) ==
    /\ pc' = "done"
    /\ request' = [endpoint |-> endpoint, file |-> file, user_id |-> user_id,
                   status |-> s.status]
    /\ trace' = s.trace
    /\ conversation_history' = s.ch
    /\ heap' = s.hp
    /\ appended' = s.appended
    /\ got' = NoGot
    /\ ai_response' = IF s.dispatched THEN reply ELSE <<>>
    /\ parse' = IF s.dispatched THEN x.parse ELSE "none"
    /\ instruction' = IF s.dispatched THEN InstrOf(x.object) ELSE Instr(NoneStr, NoneStr)
    /\ events' = IF s.dispatched THEN SomeEvents ELSE <<>>
    /\ tasks' = IF s.dispatched THEN SomeTasks ELSE <<>>
    /\ fail' = "none"
    /\ calls' = IF s.dispatched THEN out.calls ELSE <<>>
    /\ result' = IF s.dispatched THEN out.result ELSE ReturnsNone
    /\ written' = NotWritten
    /\ UNCHANGED <<loc, overlaps>>

RespondTo(endpoint, file, user_id, reply, s, x) ==
    Respond(endpoint, file, user_id, reply, s, x,
            ProcessExtracted(x, SomeEvents, SomeTasks, "none"))

\* POST /api/ai/process
TextRequest ==
    /\ pc = "idle"
    /\ NCalls + 2 <= MaxCalls
    /\ \E user_id \in UserIds, reply \in Replies :
           RespondTo("text", "none", user_id, reply,
                     process_text_with_ai(Entering(conversation_history, heap, appended),
                                          user_id),
                     extract_instruction(reply))

\* POST /api/file/extract
FileRequest ==
    /\ pc = "idle"
    /\ NCalls + 2 <= MaxCalls
    /\ \E file \in Files, user_id \in UserIds, reply \in Replies :
           RespondTo("file", file, user_id, reply,
                     extract_file_text(Entering(conversation_history, heap, appended),
                                       file, user_id),
                     extract_instruction(reply))

\* the response is sent
RequestReturn ==
    /\ pc = "done"
    /\ Return

Next ==
    \/ NoInstructionFound
    \/ MalformedInstruction
    \/ Greeting
    \/ ClarificationNeeded
    \/ CreateEvent
    \/ CreateTask
    \/ UpdateEvent
    \/ UpdateTask
    \/ DeleteEvent
    \/ DeleteTask
    \/ FindAndDeleteEvent
    \/ FindAndDeleteTask
    \/ QueryEvents
    \/ QueryTasks
    \/ OtherItemType
    \/ OtherAction
    \/ Return

Init ==
    /\ StoreInit
    /\ DispatchInit

Spec == Init /\ [][Next]_vars

StoreNext ==
    \/ \E u \in Users : AddToHistory(u)
    \/ \E u \in Users, k \in 0..MaxK : GetHistory(u, k)

ConcNext ==
    \/ \E t \in Threads, u \in Users : ThreadCall(t, u)
    \/ \E t \in Threads : ThreadStep(t)
    \/ \E t \in Threads : ThreadReturn(t)

SpecStore ==
    Init /\ [][StoreNext]_vars

SpecConc ==
    Init /\ [][ConcNext]_vars

TextNext ==
    \/ StrictReply
    \/ TrailingCommaReply
    \/ SmartQuoteReply
    \/ UnlabelledReply
    \/ SeveralInstructions
    \/ BrokenReply
    \/ Return

SpecText ==
    Init /\ [][TextNext]_vars

RequestNext ==
    \/ TextRequest
    \/ FileRequest
    \/ RequestReturn

SpecRequest ==
    Init /\ [][RequestNext]_vars

(***************************************************************************)
(* Properties of the conversation store.                                   *)
(***************************************************************************)
\* the last n elements of a sequence (all of it when it is shorter)
LastN(seq, n) == SubSeq(seq, Len(seq) - Min(n, Len(seq)) + 1, Len(seq))

\* C2: after any sequence of n sequential add_to_conversation_history calls
\* for a user, the stored history is exactly the last min(n, 20) appended
\* entries in insertion order, so it never holds more than 20.
C2_HistoryIsLast20 ==
    \A u \in Users :
        /\ History(u) = LastN(appended[u], 20)
        /\ Len(History(u)) <= 20

\* C2 witness: a user has appended more than 20 entries and the two oldest are gone
C2_Witness ==
    \E u \in Users :
        /\ Len(appended[u]) = 22
        /\ Len(History(u)) = 20
        /\ History(u)[1] = Entry(3)
        /\ History(u)[20] = Entry(22)

\* C3: get_conversation_history(user_id, k) returns exactly the last
\* min(k, length) stored entries, in order, never more than k of them, for
\* every k >= 0, and the empty sequence for an unknown user id.
C3_RecentIsLastMinK ==
    got.called =>
        /\ got.value = LastN(History(got.user_id), got.max_messages)
        /\ Len(got.value) <= got.max_messages
        /\ (conversation_history[got.user_id] = 0 => got.value = <<>>)

\* the entries of a sequence are pairwise different
Distinct(seq) == \A i, j \in 1..Len(seq) : i # j => seq[i] # seq[j]

\* C4: under any interleaving of concurrent add_to_conversation_history
\* calls for a user id, once all calls have returned the history is the last
\* min(n, 20) entries of some serial order of all n appends: min(n, 20)
\* different appended entries, none lost but by eviction.
C4_NoLostAppend ==
    Quiescent =>
        \A u \in Users :
            /\ Len(History(u)) = Min(Len(appended[u]), 20)
            /\ Distinct(History(u))
            /\ \A i \in 1..Len(History(u)) :
                   \E j \in 1..Len(appended[u]) : History(u)[i] = appended[u][j]

(***************************************************************************)
(* Properties of the dispatcher and of find_and_delete.                    *)
(***************************************************************************)
Done == pc = "done"
Parsed == Done /\ parse = "ok"

IsDelete(c) == c.op \in {"events.delete", "tasks.delete"}
DeleteCalls == SelectSeq(calls, IsDelete)

\* a find_and_delete of a known item type whose candidate list was fetched
Resolving ==
    /\ Parsed
    /\ instruction.action = "find_and_delete"
    /\ instruction.item_type \in ItemTypes
    /\ fail \notin {"credentials", "tasklists", "list"}

Candidates == IF instruction.item_type = "event" THEN events ELSE tasks
Description == LowerStr(Get(instruction.title, <<>>))

\* the i-th candidate matches the instruction
MatchesAt(i) ==
    IF instruction.item_type = "event"
    THEN EventVerdict(Description, instruction, events[i]) = "yes"
    ELSE title_matches(Description, LowerStr(Get(tasks[i].title, <<>>)))

\* the instruction has a description and comparing it with the candidates
\* completes (a null title, or a datetime_start without a UTC offset compared
\* with a start that has one, throws)
MatchDefined ==
    /\ instruction.title # None
    /\ instruction.item_type = "event" =>
           \A i \in 1..Len(events) :
               EventVerdict(Description, instruction, events[i]) # "raise"

MatchIndexes == {i \in 1..Len(Candidates) : MatchesAt(i)}

TitleOf(c) ==
    IF instruction.item_type = "event"
    THEN Get(c.summary, <<"Untitled Event">>)
    ELSE Get(c.title, <<"Untitled Task">>)

IsSuccess(r) == r.ret = "dict" /\ r.success /\ "success" \in r.keys /\ "error" \notin r.keys
IsError(r) == r.ret = "dict" /\ "error" \in r.keys /\ "success" \notin r.keys

\* C1: the provider's delete is called only when resolution is unambiguous:
\* a find_and_delete makes no delete call unless exactly one candidate
\* matches, and then at most one; create, update, query, greeting,
\* clarification_needed (and a reply that is no instruction) make none.
C1_DeleteOnlyWhenUnambiguous ==
    Done =>
        /\ (Parsed /\ instruction.action = "find_and_delete") =>
               /\ Len(DeleteCalls) <= 1
               /\ Len(DeleteCalls) = 1 =>
                      (Resolving /\ MatchDefined /\ Cardinality(MatchIndexes) = 1)
        /\ (~Parsed \/ instruction.action \notin {"find_and_delete", "delete"}) =>
               DeleteCalls = <<>>

\* C1 witness: two candidates match and nothing was deleted, after the list was fetched
C1_Witness ==
    /\ Resolving /\ MatchDefined
    /\ Cardinality(MatchIndexes) = 2
    /\ Len(calls) >= 2
    /\ DeleteCalls = <<>>

\* C5: process_ai_instruction always returns a result envelope (a dict),
\* whatever the reply text, the (action, item_type) pair and the provider do.
C5_AlwaysEnvelope == Done => result.ret = "dict"

\* C6: an actionable action with an absent, null or unrecognized item_type
\* returns an envelope with an error field and makes no collaborator call.
C6_MissingItemTypeIsError ==
    (Parsed /\ instruction.action \in ActionableActions
            /\ instruction.item_type \notin ItemTypes) =>
        /\ result.ret = "dict"
        /\ "error" \in result.keys
        /\ calls = <<>>

\* C7: an action that is none of the seven (an absent one included) returns
\* {error: "Unknown action: <value>"} and makes no collaborator call.
C7_UnknownAction ==
    (Parsed /\ instruction.action \notin Actions) =>
        /\ result.ret = "dict"
        /\ result.keys = {"error"}
        /\ result.error = Text("Unknown action: ", <<instruction.action>>)
        /\ calls = <<>>

\* C7 witness: a dispatched instruction whose action is "remove"
C7_Witness ==
    /\ Parsed
    /\ instruction.action = "remove"
    /\ instruction.item_type = "event"
    /\ IsError(result)

\* C8 as stated: exactly one match means one delete call with the match's id
\* and a success envelope naming its title.
C8_OneMatchDeletesAndSucceeds ==
    (Resolving /\ MatchDefined /\ Cardinality(MatchIndexes) = 1) =>
        LET c == Candidates[CHOOSE i \in MatchIndexes : TRUE]
        IN  /\ Len(DeleteCalls) = 1
            /\ DeleteCalls[1].arg = <<c.id>>
            /\ IsSuccess(result)
            /\ result.message.arg = TitleOf(c)

\* C8, amended: exactly one match means exactly one delete call, with the
\* match's id; the envelope is a success naming the match's title when the
\* provider's delete succeeds, and an error envelope when it fails.
C8_OneMatchDeletesOnce ==
    (Resolving /\ MatchDefined /\ Cardinality(MatchIndexes) = 1) =>
        LET c == Candidates[CHOOSE i \in MatchIndexes : TRUE]
        IN  /\ Len(DeleteCalls) = 1
            /\ DeleteCalls[1].arg = <<c.id>>
            /\ DeleteCalls[1].op =
                   (IF instruction.item_type = "event" THEN "events.delete" ELSE "tasks.delete")
            /\ fail # "delete" => (IsSuccess(result) /\ result.message.arg = TitleOf(c))
            /\ fail = "delete" => IsError(result)

\* C8 witness: of two candidates the second alone matches, and was deleted
C8_Witness ==
    /\ Resolving /\ MatchDefined
    /\ Len(Candidates) = 2
    /\ MatchIndexes = {2}
    /\ Len(DeleteCalls) = 1
    /\ IsSuccess(result)

C10_NoMatchDeletesNothing ==
    (Resolving /\ (Candidates = <<>> \/ (MatchDefined /\ MatchIndexes = {}))) =>
        /\ DeleteCalls = <<>>
        /\ IsSuccess(result)
        /\ Candidates # <<>> => result.items = Candidates

\* C10 witness: two candidates, neither matching the description
C10_Witness ==
    /\ Resolving /\ MatchDefined
    /\ Len(Candidates) = 2
    /\ MatchIndexes = {}
    /\ instruction.title = <<"q">>
    /\ Len(result.items) = 2

\* the instruction carries no date, datetime_start or time hint
NoHint ==
    /\ instruction.date = 0
    /\ ~instruction.datetime_start.set
    /\ instruction.time = NoTime

\* C11: a find_and_delete whose title is the empty string, null or absent
\* never deletes, whatever the candidate list.
C11_EmptyTitleNeverDeletes ==
    (Parsed /\ instruction.action = "find_and_delete"
            /\ instruction.item_type \in ItemTypes
            /\ ~Truthy(instruction.title)) =>
        DeleteCalls = <<>>

\* C12: a delete of an event or a task whose `id` field holds an identifier
\* calls the provider's delete exactly once with that identifier and returns
\* a success envelope (when no collaborator call fails).
C12_DeleteByIdField ==
    (Parsed /\ instruction.action = "delete"
            /\ instruction.item_type \in ItemTypes
            /\ Truthy(instruction.id)
            /\ fail = "none") =>
        /\ Len(DeleteCalls) = 1
        /\ DeleteCalls[1].arg = instruction.id
        /\ IsSuccess(result)

\* C15: a clarification_needed instruction makes no collaborator call,
\* whatever its item_type, and returns an envelope that signals the pause and
\* carries the instruction's missing_fields.
C15_ClarificationCarriesMissingFields ==
    (Parsed /\ instruction.action = "clarification_needed") =>
        /\ calls = <<>>
        /\ IsSuccess(result)
        /\ result.clarification
        /\ "clarification" \in result.keys
        /\ instruction.missing_fields # Absent => "missing_fields" \in result.keys

\* C16: an update of an event or a task makes no collaborator call, so the
\* target is never looked up by title or date; without an identifier it
\* returns an error envelope.
C16_UpdateNeverCallsProvider ==
    (Parsed /\ instruction.action = "update" /\ instruction.item_type \in ItemTypes) =>
        /\ calls = <<>>
        /\ ~Truthy(instruction.id) => IsError(result)

\* C16 witness: an update without identifier whose title and date are those
\* of an event the provider holds
C16_Witness ==
    /\ Parsed
    /\ instruction.action = "update"
    /\ instruction.item_type = "event"
    /\ instruction.id = None
    /\ instruction.title = events[1].summary
    /\ instruction.date = events[1].start.day
    /\ calls = <<>>
    /\ IsError(result)

\* a occurs in b as a contiguous run
Contains(a, b) ==
    \E i \in 1..(Len(b) + 1) : \E j \in (i - 1)..Len(b) : SubSeq(b, i, j) = a

\* the candidates whose lowercased title contains the lowercased description
\* or is contained in it
TitleMatchIndexes ==
    {i \in 1..Len(Candidates) :
        LET t == LowerStr(IF instruction.item_type = "event"
                          THEN Get(Candidates[i].summary, <<>>)
                          ELSE Get(Candidates[i].title, <<>>))
        IN  Contains(Description, t) \/ Contains(t, Description)}

\* the ids of the candidates the call treated as matches: the one it deleted,
\* or those it returned as several matches
TreatedAsMatch ==
    IF DeleteCalls # <<>> THEN {DeleteCalls[1].arg[1]}
    ELSE IF result.message.text \in {"Found events matching", "Found tasks matching"}
    THEN {result.items[k].id : k \in 1..Len(result.items)}
    ELSE {}

\* C20: only title matches (containment either way, on lowercased text) are
\* treated as matches, and without a date, datetime_start or time hint the
\* match set is exactly the set of title matches.
C20_TitleMatchDecides ==
    (Resolving /\ instruction.title # None /\ Candidates # <<>> /\ IsSuccess(result)) =>
        /\ TreatedAsMatch \subseteq TitleMatchIndexes
        /\ NoHint => TreatedAsMatch = TitleMatchIndexes

\* C20 witness: without hint, the description "daq" contains the title "da"
\* of the first of two candidates only, and that one was deleted
C20_Witness ==
    /\ Resolving
    /\ NoHint
    /\ instruction.title = <<"d", "a", "q">>
    /\ Len(Candidates) = 2
    /\ TitleMatchIndexes = {1}
    /\ TreatedAsMatch = {1}
    /\ IsSuccess(result)

(***************************************************************************)
(* Properties of the event sent to the provider by a create.               *)
(***************************************************************************)
IsInsert(c) == c.op = "events.insert"
InsertCalls == SelectSeq(calls, IsInsert)

\* the event_data the provider received
SentEvent == InsertCalls[1].arg[1]

CreatingEvent ==
    /\ Parsed
    /\ instruction.action = "create"
    /\ instruction.item_type = "event"

\* the parts of the rule a recurrence object asks for, written out
FreqSegment(r) ==
    IF r.freq = Weekly THEN <<"FREQ=", "W", "E", "E", "K", "L", "Y">>
    ELSE IF r.freq = Daily THEN <<"FREQ=", "D", "A", "I", "L", "Y">>
    ELSE <<>>

IntervalSegment(r) ==
    IF r.interval = 1 THEN <<"INTERVAL=", "1">>
    ELSE IF r.interval = 12 THEN <<"INTERVAL=", "1", "2">>
    ELSE <<>>

UntilSegment(r) ==
    IF r.until = UntilDate THEN <<"UNTIL=", "2", "0", "2", "5", "0", "6", "3", "0">>
    ELSE IF r.until = UntilDateTime THEN <<"UNTIL=", "2", "0", "2", "5", "1", "2", "3", "1">>
    ELSE <<>>

BydaySegment(r) ==
    IF r.byweekday = <<"MO">> THEN <<"BYDAY=", "MO">>
    ELSE IF r.byweekday = <<"MO", "WE">> THEN <<"BYDAY=", "MO", ",", "WE">>
    ELSE IF r.byweekday = <<"FR", "MO">> THEN <<"BYDAY=", "FR", ",", "MO">>
    ELSE <<>>

\* two runs of segments, with a ';' between them when neither is empty
Glue(a, b) == IF a = <<>> THEN b ELSE IF b = <<>> THEN a ELSE a \o <<";">> \o b

ExpectedRule(r) ==
    <<"RRULE:">>
        \o Glue(Glue(Glue(FreqSegment(r), IntervalSegment(r)), UntilSegment(r)),
                BydaySegment(r))

\* the recurrence object has a part, and its day codes are weekday codes
HasRuleParts(r) ==
    /\ r.kind = "object"
    /\ \A i \in 1..Len(r.byweekday) :
           r.byweekday[i] \in {"MO", "TU", "WE", "TH", "FR", "SA", "SU"}
    /\ (r.freq # None \/ r.interval # 0 \/ r.until # None \/ r.byweekday # <<>>)

\* C17: the recurrence sent is one rule, 'RRULE:' followed by the present
\* parts in the order FREQ (upper-cased), INTERVAL, UNTIL (YYYYMMDD, the
\* time stripped), BYDAY (day codes joined by ','), joined by ';' with no
\* empty segment; {freq:'weekly', interval:1, byweekday:['MO']} gives
\* 'RRULE:FREQ=WEEKLY;INTERVAL=1;BYDAY=MO'.
C17_RecurrenceRule ==
    (CreatingEvent /\ HasRuleParts(instruction.recurrence) /\ fail # "credentials") =>
        /\ InsertCalls # <<>>
        /\ SentEvent.recurrence = <<ExpectedRule(instruction.recurrence)>>
        /\ instruction.recurrence = Recurrence(Weekly, 1, None, <<"MO">>) =>
               SentEvent.recurrence =
                   << <<"RRULE:", "FREQ=", "W", "E", "E", "K", "L", "Y", ";",
                        "INTERVAL=", "1", ";", "BYDAY=", "MO">> >>

\* C17 witness: a rule with all four parts, the until given with a time
C17_Witness ==
    /\ CreatingEvent
    /\ instruction.recurrence = Recurrence(Weekly, 12, UntilDateTime, <<"FR", "MO">>)
    /\ InsertCalls # <<>>
    /\ SentEvent.recurrence =
           << <<"RRULE:", "FREQ=", "W", "E", "E", "K", "L", "Y", ";", "INTERVAL=", "1", "2",
                ";", "UNTIL=", "2", "0", "2", "5", "1", "2", "3", "1", ";",
                "BYDAY=", "FR", ",", "MO">> >>

\* the civil calendar
LeapYear(y) == (y % 4 = 0 /\ y % 100 # 0) \/ y % 400 = 0

MonthLength(y, m) ==
    CASE m \in {1, 3, 5, 7, 8, 10, 12} -> 31
      [] m \in {4, 6, 9, 11} -> 30
      [] OTHER -> IF LeapYear(y) THEN 29 ELSE 28

IsCivilDate(date) ==
    /\ (date \div 100) % 100 \in 1..12
    /\ date % 100 \in 1..MonthLength(date \div 10000, (date \div 100) % 100)

NextCivilDay(date) ==
    IF (date % 100) < MonthLength(date \div 10000, (date \div 100) % 100) THEN date + 1
    ELSE IF (date \div 100) % 100 < 12
    THEN Date(date \div 10000, ((date \div 100) % 100) + 1, 1)
    ELSE Date((date \div 10000) + 1, 1, 1)

\* a create of an all-day event: a date, no datetime_start, no datetime_end
CreatingAllDay ==
    /\ CreatingEvent
    /\ instruction.date # 0
    /\ IsCivilDate(instruction.date)
    /\ ~instruction.datetime_start.set
    /\ ~instruction.datetime_end.set

\* every reminder of the instruction is 'PT<n>M' for one of ns
AllMinutes(ns) ==
    /\ Len(ns) = Len(instruction.reminders)
    /\ \A i \in 1..Len(ns) : instruction.reminders[i] = PTnM(ns[i])

MinuteLists == UNION { [1..n -> ReminderMinutes] : n \in 0..2 }

\* C18: the event sent for a start date without datetime_start and
\* datetime_end starts on that date and ends on the next calendar day, also
\* across the end of a month and of a year.
C18_AllDayEndIsNextDay ==
    (CreatingAllDay /\ fail # "credentials" /\ \E ns \in MinuteLists : AllMinutes(ns)) =>
        /\ InsertCalls # <<>>
        /\ SentEvent.start = DateStart(instruction.date)
        /\ SentEvent.end = DateStart(NextCivilDay(instruction.date))

\* C18 witness: the event of 2025-12-31 was sent with the end 2026-01-01
C18_Witness ==
    /\ CreatingAllDay
    /\ instruction.date = Date(2025, 12, 31)
    /\ InsertCalls # <<>>
    /\ SentEvent.end = DateStart(Date(2026, 1, 1))

\* C19: for reminders that are all of the form 'PT<n>M' the event sent has
\* useDefault off and one popup override per entry, in order, of n minutes.
C19_ReminderOverrides ==
    (CreatingEvent /\ instruction.reminders # <<>> /\ fail # "credentials") =>
        \A ns \in MinuteLists :
            AllMinutes(ns) =>
                /\ InsertCalls # <<>>
                /\ SentEvent.reminders.set
                /\ ~SentEvent.reminders.useDefault
                /\ SentEvent.reminders.overrides =
                       [i \in 1..Len(ns) |-> [method |-> "popup", minutes |-> ns[i]]]

\* C19 witness: ['PT120M', 'PT5M'] was sent as overrides of 120 and 5 minutes
C19_Witness ==
    /\ CreatingEvent
    /\ instruction.reminders = <<PTnM(120), PTnM(5)>>
    /\ InsertCalls # <<>>
    /\ SentEvent.reminders.overrides =
           <<[method |-> "popup", minutes |-> 120], [method |-> "popup", minutes |-> 5]>>

\* the call was followed from the reply text
FromText == pc = "done" /\ written.style # "none"

\* C13: an instruction object written with trailing commas before its closing
\* braces and brackets, or with curly quotes, parses after clean_json_string
\* to the same object as its strict-syntax text, whatever its strings hold.
C13_RepairedParseIsStrictParse ==
    (FromText /\ written.style \in {"trailing", "curly"}) =>
        /\ ~json_loads(written.strict).raised
        /\ json_loads(clean_json_string(written.text)) = json_loads(written.strict)

\* the text holds the label, then nothing but whitespace, then a '{' that a
\* '}' follows somewhere
HasLabelledObject(text) ==
    \E i \in 1..Len(text), j \in 1..Len(text), e \in 1..Len(text) :
        /\ i + 1 < j /\ j < e
        /\ text[i] = "instruction" /\ text[i + 1] = ":"
        /\ \A k \in (i + 2)..(j - 1) : IsWs(text[k])
        /\ text[j] = "{" /\ text[e] = "}"

\* C14: for a reply without the label 'instruction:' followed by an object the
\* call returns the error 'No instruction found in AI response' and makes no
\* collaborator call.
C14_NoInstructionFound ==
    (FromText /\ ~HasLabelledObject(ai_response)) =>
        /\ result = Error("No instruction found in AI response", <<>>)
        /\ calls = <<>>

\* C14 witness: a reply that is an object without the label got the error
C14_Witness ==
    /\ FromText
    /\ ai_response \in UnlabelledReplies
    /\ ai_response # <<>> /\ ai_response[1] = "{"
    /\ result = Error("No instruction found in AI response", <<>>)
    /\ calls = <<>>

(***************************************************************************)
(* Properties of the date and time hints of find_and_delete.               *)
(***************************************************************************)
\* a find_and_delete of events with a description, whose comparison ended
\* and whose result tells the match set
ResolvedEvents ==
    /\ Resolving
    /\ instruction.item_type = "event"
    /\ instruction.title # None
    /\ IsSuccess(result)

\* C21: with a `date` in the instruction every candidate treated as a match
\* has that date as its own date or as the date part of its start time; a
\* candidate of another date or without start is not among them, whatever
\* datetime_start and time say.
C21_DateHintFilters ==
    (ResolvedEvents /\ instruction.date # 0) =>
        \A i \in TreatedAsMatch :
            /\ events[i].start.kind \in {"date", "dateTime"}
            /\ events[i].start.day = instruction.date

\* the absolute difference of two instants, in seconds
Apart(a, b) == IF Instant(a) >= Instant(b) THEN Instant(a) - Instant(b)
               ELSE Instant(b) - Instant(a)

\* C22: with a datetime_start and no date in the instruction, a candidate
\* whose title matches is treated as a match iff it has a start time at most
\* 3600 seconds from the hint; an all-day candidate is not.
C22_StartHintWithinTheHour ==
    (ResolvedEvents /\ instruction.date = 0 /\ instruction.datetime_start.set) =>
        \A i \in TitleMatchIndexes :
            i \in TreatedAsMatch <=>
                /\ events[i].start.kind = "dateTime"
                /\ Apart(events[i].start.dt, instruction.datetime_start) <= 3600

\* a task's due date satisfies the hint of the instruction
DueSatisfiesHint(task) ==
    IF instruction.date # 0
    THEN task.due.kind \in {"date", "dateTime"} /\ task.due.day = instruction.date
    ELSE IF instruction.datetime_start.set
    THEN task.due.kind = "dateTime" /\ Apart(task.due.dt, instruction.datetime_start) <= 3600
    ELSE task.due.kind = "dateTime" /\ task.due.dt.sec \div 60 = instruction.time

\* C23: for a find_and_delete of tasks with a date or time hint, every task
\* treated as a match has a due date that satisfies the hint.
C23_TasksFilteredByHint ==
    (/\ Resolving
     /\ instruction.item_type = "task"
     /\ instruction.title # None
     /\ IsSuccess(result)
     /\ ~NoHint) =>
        \A i \in TreatedAsMatch : DueSatisfiesHint(tasks[i])

(***************************************************************************)
(* Properties of the recovery after a failed parse.                        *)
(***************************************************************************)
\* the text the parse is given: the block after the label, repaired
Captured == clean_json_string(instruction_match(ai_response).group)

\* the label was found and the parse of the captured text failed
StrictParseFailed ==
    /\ FromText
    /\ instruction_match(ai_response).matched
    /\ json_loads(Captured).raised

Count(text, c, from, to) == Cardinality({k \in from..to : text[k] = c})

Opens(text) == {k \in 1..Len(text) : text[k] = "{"}
FirstOpen(text) == CHOOSE k \in Opens(text) : \A j \in Opens(text) : k <= j

\* the closing braces at which as many braces are closed as were opened
\* since the first opening brace
Closings(text) ==
    {e \in FirstOpen(text)..Len(text) :
        /\ text[e] = "}"
        /\ Count(text, "{", FirstOpen(text), e) = Count(text, "}", FirstOpen(text), e)}

HasFirstSpan(text) == Opens(text) # {} /\ Closings(text) # {}

\* the first brace-balanced span
FirstSpan(text) ==
    SubSeq(text, FirstOpen(text),
           CHOOSE e \in Closings(text) : \A j \in Closings(text) : e <= j)

Recovered == HasFirstSpan(Captured) /\ ~json_loads(FirstSpan(Captured)).raised

\* C24: when the parse of the captured text fails, the object dispatched is
\* the parse of the first brace-balanced span from the first '{', and it is
\* the only one: of several instruction objects the first; when there is no
\* such span or it does not parse, the call returns the malformed-instruction
\* error and makes no collaborator call.
C24_RecoveryTakesFirstObject ==
    StrictParseFailed =>
        IF Recovered
        THEN /\ parse = "ok"
             /\ instruction = InstrOf(json_loads(FirstSpan(Captured)).value)
             /\ calls = Dispatch(instruction, events, tasks, fail).calls
             /\ result = Dispatch(instruction, events, tasks, fail).result
             /\ written.style = "several" =>
                    instruction = InstrOf(json_loads(clean_json_string(written.text)).value)
        ELSE /\ parse = "malformed"
             /\ result = Error("Failed to parse instruction JSON: ", <<>>)
             /\ calls = <<>>

\* C24 witness: of a find_and_delete of "Da" followed by a labelled query of
\* tasks the first alone was dispatched, and the event deleted
C24_Witness ==
    /\ StrictParseFailed /\ Recovered
    /\ written.style = "several"
    /\ Len(SelectSeq(ai_response, LAMBDA u : u = "instruction")) = 2
    /\ instruction.action = "find_and_delete"
    /\ instruction.title = <<"D", "a">>
    /\ Len(DeleteCalls) = 1
    /\ Len(calls) = 3

\* C24 witness: a block whose first brace never closes got the error
C24_WitnessMalformed ==
    /\ StrictParseFailed /\ ~Recovered
    /\ written.style = "broken"
    /\ ~HasFirstSpan(Captured)
    /\ parse = "malformed"

\* a recurrence object was supplied: {} or an object with keys
RecurrenceSupplied == instruction.recurrence.kind \in {"empty", "object"}

\* the object has no freq, interval or until and names no day of the week
YieldsNoPart(r) ==
    /\ r.freq \in {None, <<>>}
    /\ r.interval = 0
    /\ r.until \in {None, <<>>}
    /\ \A i \in 1..Len(r.byweekday) :
           r.byweekday[i] \notin {"MO", "TU", "WE", "TH", "FR", "SA", "SU"}

\* C25: a create of an event whose instruction supplies a recurrence object,
\* the empty object included, sends an event with a recurrence, which is
\* 'RRULE:FREQ=DAILY' when the object yields no part of a rule.
C25_SuppliedRecurrenceIsSent ==
    (CreatingEvent /\ RecurrenceSupplied /\ fail # "credentials") =>
        /\ InsertCalls # <<>>
        /\ SentEvent.recurrence # <<>>
        /\ YieldsNoPart(instruction.recurrence) =>
               SentEvent.recurrence = << <<"RRULE:", "FREQ=", "D", "A", "I", "L", "Y">> >>

(***************************************************************************)
(* Properties of the collaborator calls of one dispatch.                   *)
(***************************************************************************)
IsMutating(c) == c.op \in {"events.insert", "tasks.insert", "events.delete", "tasks.delete"}
MutatingCalls == SelectSeq(calls, IsMutating)

\* the provider operations that fail in this dispatch
FailingOps ==
    IF fail = "insert" THEN {"events.insert", "tasks.insert"}
    ELSE IF fail = "delete" THEN {"events.delete", "tasks.delete"}
    ELSE IF fail = "list" THEN {"events.list", "tasks.list"}
    ELSE IF fail = "tasklists" THEN {"tasklists.list"}
    ELSE {}

\* C26: a dispatch makes at most one insert or delete call, and a provider
\* call that fails is the last call of the dispatch, which returns an error
\* envelope carrying the provider's error.
C26_NoRetry ==
    Done =>
        /\ Len(MutatingCalls) <= 1
        /\ \A i \in 1..Len(calls) :
               calls[i].op \in FailingOps =>
                   /\ i = Len(calls)
                   /\ IsError(result)
                   /\ result.error.arg = ProviderError

\* C26 witness: the insert of an event failed, after one attempt
C26_Witness ==
    /\ CreatingEvent
    /\ fail = "insert"
    /\ Len(InsertCalls) = 1
    /\ calls[Len(calls)].op = "events.insert"
    /\ IsError(result)
    /\ result.error.arg = ProviderError

(***************************************************************************)
(* Properties of the request endpoints.                                    *)
(***************************************************************************)
\* a request with a user id was served to its end
Served ==
    /\ pc = "done"
    /\ request.endpoint \in {"text", "file"}
    /\ HasUserId(request.user_id)
    /\ request.status = 200

\* C27: a request with a user id, on either endpoint, appends the user's
\* message to the history, then builds the prompt from the history and gets
\* the completion, then dispatches the instruction, and only then appends
\* the assistant's reply.
C27_RequestOrder ==
    Served =>
        \E a, b, c, d \in 1..Len(trace) :
            /\ a < b /\ b < c /\ c < d
            /\ trace[a].step = "append_user"
            /\ trace[b].step = "completion"
            /\ trace[c].step = "dispatch"
            /\ trace[d].step = "append_reply"

\* C30: a request without user id leaves every user's history as it was and
\* dispatches nothing (the text endpoint takes no step at all, the file
\* endpoint appends nothing and dispatches nothing), and a request only
\* changes the history of its own user id.
C30_NoUserIdChangesNothing ==
    [][ /\ (request'.endpoint # "none" /\ ~HasUserId(request'.user_id)) =>
               /\ \A u \in Users : History(u)' = History(u)
               /\ calls' = <<>>
               /\ \A i \in 1..Len(trace') :
                      trace'[i].step \notin {"append_user", "append_reply", "dispatch"}
               /\ request'.endpoint = "text" => (trace' = <<>> /\ request'.status = 400)
        /\ \A u \in Users : History(u)' # History(u) => request'.user_id = u
      ]_vars

\* C30 witness: a file request without user id got its completion, after
\* both users had a history, and nothing was appended or dispatched
C30_Witness ==
    /\ pc = "done"
    /\ request.endpoint = "file"
    /\ request.user_id = ""
    /\ request.status = 200
    /\ Len(trace) = 1 /\ trace[1].step = "completion"
    /\ calls = <<>>
    /\ History("u1") = appended["u1"] /\ Len(appended["u1"]) = 2
    /\ History("u2") = appended["u2"] /\ Len(appended["u2"]) = 4

\* C28: every event sent to the provider by a create has a start iff it has
\* an end, and the two are of one kind (both a date or both a dateTime),
\* whatever of date, datetime_start and datetime_end the instruction holds.
C28_SentEventWellFormedInTime ==
    (CreatingEvent /\ InsertCalls # <<>>) =>
        /\ SentEvent.start.kind = "none" <=> SentEvent.end.kind = "none"
        /\ SentEvent.start.kind = SentEvent.end.kind

(***************************************************************************)
(* Properties of the shape of the returned dicts.                          *)
(***************************************************************************)
HasErrorField == "error" \in result.keys
HasSuccessTrue == "success" \in result.keys /\ result.success

\* C29: every dict process_ai_instruction returns, its own or a handler's,
\* is a success envelope (success is true, no error field) or a failure
\* envelope (an error field, no success = true), never both and never
\* neither.
C29_EnvelopeHasOneShape ==
    (Done /\ result.ret = "dict") =>
        /\ HasSuccessTrue \/ HasErrorField
        /\ ~(HasSuccessTrue /\ HasErrorField)

\* C29 witness: a find_and_delete of events that matched nothing returned the
\* browsed events in a success envelope without error field
C29_Witness ==
    /\ Resolving /\ MatchDefined
    /\ instruction.item_type = "event"
    /\ Candidates # <<>>
    /\ MatchIndexes = {}
    /\ result.ret = "dict"
    /\ HasSuccessTrue /\ ~HasErrorField
    /\ result.items = events

====
